---- MODULE Spec2Model ----
(***************************************************************************)
(* A model of the mpv client binding: the Node value type and its          *)
(* conversion to and from the native tagged union (mpv-client/src/node.rs),*)
(* the Format trait (format.rs), the event decoder and the Handle facade   *)
(* (lib.rs), in the two iterations of the crate present in the source      *)
(* tree: "mpv_client" (src/mpv-client/src) and "root" (src/src).           *)
(*                                                                         *)
(* Text is a sequence of bytes; 0 is the terminator.  Native memory is a   *)
(* tree of objects, each carrying the address of its allocation; an        *)
(* address is <<path, kind>>, the path being the position of the value the *)
(* allocation was made for.                                                *)
(***************************************************************************)
EXTENDS Integers, Sequences, FiniteSets, TLC

(***************************************************************************)
(* Bounds of the model.                                                    *)
(***************************************************************************)
MaxLen == 2        \* longest Array generated as input
MaxCalls == 2      \* facade calls made in one behaviour

(***************************************************************************)
(* Format tags and error codes of the native protocol.                     *)
(***************************************************************************)
MPV_FORMAT_NONE == 0
MPV_FORMAT_STRING == 1
MPV_FORMAT_OSD_STRING == 2
MPV_FORMAT_FLAG == 3
MPV_FORMAT_INT64 == 4
MPV_FORMAT_DOUBLE == 5
MPV_FORMAT_NODE == 6
MPV_FORMAT_NODE_ARRAY == 7
MPV_FORMAT_NODE_MAP == 8
MPV_FORMAT_BYTE_ARRAY == 9

MPV_ERROR_SUCCESS == 0
MPV_ERROR_NOMEM == -2
MPV_ERROR_PROPERTY_NOT_FOUND == -8
MPV_ERROR_GENERIC == -20

(***************************************************************************)
(* Text.                                                                   *)
(***************************************************************************)
NUL == 0
InvalidByte == 255          \* a byte that is never part of valid UTF-8
REPLACEMENT == <<239, 191, 189>>   \* U+FFFD as UTF-8

HasNul(s) == \E i \in 1..Len(s) : s[i] = NUL

IsUtf8(s) == \A i \in 1..Len(s) : s[i] # InvalidByte

\* CString::new: Err(NulError) on an interior 0, else the bytes and a
\* terminator.
CString_new(s) ==
    IF HasNul(s) THEN [ok |-> FALSE, bytes |-> <<>>]
    ELSE [ok |-> TRUE, bytes |-> Append(s, NUL)]

\* CStr::from_ptr: the bytes up to, not including, the first terminator.
CStr_from_ptr(bytes) ==
    LET stops == {i \in 1..Len(bytes) : bytes[i] = NUL}
        end == IF stops = {} THEN Len(bytes) + 1
               ELSE CHOOSE i \in stops : \A j \in stops : i <= j
    IN SubSeq(bytes, 1, end - 1)

RECURSIVE to_string_lossy(_)
to_string_lossy(s) ==
    IF s = <<>> THEN <<>>
    ELSE (IF Head(s) = InvalidByte THEN REPLACEMENT ELSE <<Head(s)>>)
         \o to_string_lossy(Tail(s))

\* CStr::to_str: Err(Utf8Error) unless the text is valid.
CStr_to_str(s) == [ok |-> IsUtf8(s), text |-> s]

(***************************************************************************)
(* enum Node.                                                              *)
(***************************************************************************)
NNone == [kind |-> "None"]
NString(s) == [kind |-> "String", val |-> s]
NInt(i) == [kind |-> "Int", val |-> i]
NDouble(d) == [kind |-> "Double", val |-> d]
NBool(b) == [kind |-> "Bool", val |-> b]
NByteArray(b) == [kind |-> "ByteArray", val |-> b]
NArray(a) == [kind |-> "Array", val |-> a]
NMap(m) == [kind |-> "Map", val |-> m]
\* The outcome of decoding through a pointer that is not one: not a Node
\* any program produced, the read is undefined.
NWild == [kind |-> "Wild"]

(***************************************************************************)
(* Native memory.                                                          *)
(***************************************************************************)
NullAddr == <<<<>>, "null">>
DanglingAddr == <<<<>>, "dangling">>
WildAddr == <<<<>>, "wild">>
NULL == [addr |-> NullAddr]

IsNull(obj) == obj.addr = NullAddr

\* The members of the union mpv_node.u, one 8-byte word.
WZero == [w |-> "int64", v |-> 0]
WInt64(i) == [w |-> "int64", v |-> i]
WDouble(d) == [w |-> "double", v |-> d]
WFlag(f) == [w |-> "flag", v |-> f]
WPtr(obj) == [w |-> "ptr", obj |-> obj]

\* struct mpv_node as the native side lays it out.
MpvNode(format, u) == [format |-> format, u |-> u]

\* An array allocation: elem says what the allocating code stored in it,
\* "ptr" for 8-byte pointers to mpv_node, "node" for 16-byte mpv_node
\* structs, "cstr" for pointers to text.
ArrayObj(addr, elem, cells) == [addr |-> addr, elem |-> elem, cells |-> cells]

\* What an oracle supplies where the code's behaviour is not fixed by its
\* source: the tag and the bits found when memory is read as something it
\* is not, and whether malloc(0) returns a null pointer.
JunkTags == {MPV_FORMAT_NONE, MPV_FORMAT_INT64, MPV_FORMAT_STRING}
JunkBits == {4096}
Envs == [tag : JunkTags, bits : JunkBits, malloc0null : BOOLEAN]
Env0 == [tag |-> MPV_FORMAT_NONE, bits |-> 4096, malloc0null |-> FALSE]

RECURSIVE SeqOfSet(_)
SeqOfSet(S) ==
    IF S = {} THEN <<>>
    ELSE LET x == CHOOSE x \in S : TRUE IN <<x>> \o SeqOfSet(S \ {x})

\* The order in which HashMap::iter visits the keys (unspecified; one
\* order per map).
MapKeys(m) == SeqOfSet(DOMAIN m)

\* The first index of a sequence of results that failed, 0 if none.
FirstFailed(rs) ==
    LET bad == {i \in 1..Len(rs) : ~rs[i].ok}
    IN IF bad = {} THEN 0 ELSE CHOOSE i \in bad : \A j \in bad : i <= j

\* The allocations left behind when building the elements stops at the
\* element `stop`: the raw pointers already collected have no destructor.
LeakedBy(rs, stop) == UNION {rs[i].allocs : i \in 1..stop}

\* Box::into_raw(values.into_boxed_slice()): an empty slice allocates
\* nothing.
BoxedSlice(p, kind, elem, cells) ==
    ArrayObj(IF Len(cells) = 0 THEN DanglingAddr ELSE <<p, kind>>, elem, cells)

SliceAllocs(arr) == IF arr.addr = DanglingAddr THEN {} ELSE {arr.addr}

\* to_mpv_node: the boxed mpv_node for `node`, the allocations made for it,
\* and ok = FALSE when the function panicked (expect on CString::new, or a
\* null malloc), in which case allocs are those the unwinding does not
\* release.
RECURSIVE to_mpv_node(_, _, _)
to_mpv_node(node, p, env) ==
    LET box(format, u) == [addr |-> <<p, "node">>, format |-> format, u |-> u]
        done(format, u, allocs) ==
            [ok |-> TRUE, ptr |-> box(format, u),
             allocs |-> {<<p, "node">>} \cup allocs]
        panicked(allocs) == [ok |-> FALSE, ptr |-> NULL, allocs |-> allocs]
    IN
    CASE node.kind = "None" -> done(MPV_FORMAT_NONE, WZero, {})
      [] node.kind = "String" ->
            LET cstr == CString_new(node.val)
            IN IF ~cstr.ok THEN panicked({})
               ELSE done(MPV_FORMAT_STRING,
                         WPtr([addr |-> <<p, "cstr">>, bytes |-> cstr.bytes]),
                         {<<p, "cstr">>})
      [] node.kind = "Int" -> done(MPV_FORMAT_INT64, WInt64(node.val), {})
      [] node.kind = "Double" -> done(MPV_FORMAT_DOUBLE, WDouble(node.val), {})
      [] node.kind = "Bool" ->
            done(MPV_FORMAT_FLAG, WFlag(IF node.val THEN 1 ELSE 0), {})
      [] node.kind = "Array" ->
            LET n == Len(node.val)
                rs == [i \in 1..n |-> to_mpv_node(node.val[i], p \o <<i>>, env)]
                bad == FirstFailed(rs)
                values == BoxedSlice(p, "values", "ptr",
                                     [i \in 1..n |-> WPtr(rs[i].ptr)])
                list == [addr |-> <<p, "list">>, num |-> n,
                         values |-> values, keys |-> NULL]
            IN IF bad # 0 THEN panicked(LeakedBy(rs, bad))
               ELSE done(MPV_FORMAT_NODE_ARRAY, WPtr(list),
                         {list.addr} \cup SliceAllocs(values)
                            \cup LeakedBy(rs, n))
      [] node.kind = "Map" ->
            LET ks == MapKeys(node.val)
                n == Len(ks)
                entry(i) ==
                    LET ckey == CString_new(ks[i])
                        keyaddr == <<p \o <<i>>, "key">>
                        r == to_mpv_node(node.val[ks[i]], p \o <<i>>, env)
                    IN IF ~ckey.ok
                       THEN [ok |-> FALSE, key |-> NULL, ptr |-> NULL,
                             allocs |-> {}]
                       ELSE [ok |-> r.ok,
                             key |-> [addr |-> keyaddr, bytes |-> ckey.bytes],
                             ptr |-> r.ptr,
                             allocs |-> {keyaddr} \cup r.allocs]
                rs == [i \in 1..n |-> entry(i)]
                bad == FirstFailed(rs)
                keys == BoxedSlice(p, "keys", "cstr", [i \in 1..n |-> rs[i].key])
                values == BoxedSlice(p, "values", "ptr",
                                     [i \in 1..n |-> WPtr(rs[i].ptr)])
                list == [addr |-> <<p, "list">>, num |-> n,
                         values |-> values, keys |-> keys]
            IN IF bad # 0 THEN panicked(LeakedBy(rs, bad))
               ELSE done(MPV_FORMAT_NODE_MAP, WPtr(list),
                         {list.addr} \cup SliceAllocs(values)
                            \cup SliceAllocs(keys) \cup LeakedBy(rs, n))
      [] node.kind = "ByteArray" ->
            LET size == Len(node.val)
                data == IF size = 0 /\ env.malloc0null THEN NULL
                        ELSE [addr |-> <<p, "badata">>, bytes |-> node.val]
                ba == [addr |-> <<p, "ba">>, size |-> size, data |-> data]
            IN IF IsNull(data) THEN panicked({})
               ELSE done(MPV_FORMAT_BYTE_ARRAY, WPtr(ba), {ba.addr, data.addr})
(***************************************************************************)
(* Reading native memory.                                                  *)
(***************************************************************************)
IsText(obj) == obj.addr[2] \in {"cstr", "key"}
IsList(obj) == obj.addr[2] = "list"
IsByteArray(obj) == obj.addr[2] = "ba"

\* slice::from_raw_parts_mut(list.values, num)[i]: element i of the values
\* array read as a 16-byte mpv_node.  Over an array of 8-byte pointers the
\* union is the pointer in word 2i-1 and the tag is whatever lies in the
\* next word, or past the end of the allocation.
ReadNode(arr, i, env) ==
    IF arr.elem = "node" THEN arr.cells[i]
    ELSE MpvNode(env.tag,
                 IF 2 * i - 1 <= Len(arr.cells) THEN arr.cells[2 * i - 1]
                 ELSE [w |-> "junk", v |-> env.bits])

\* A scalar member of the union; a pointer read as a number gives its bits.
AsScalar(u, env) == IF u.w \in {"int64", "double", "flag"} THEN u.v ELSE env.bits

PointsTo(u, Shape(_)) == u.w = "ptr" /\ Shape(u.obj)

\* collect::<HashMap<_, _>>() of (key, value) pairs: a later pair replaces
\* an earlier one with the same key.
CollectMap(pairs) ==
    LET ks == {pairs[i][1] : i \in 1..Len(pairs)}
        last(k) == CHOOSE i \in 1..Len(pairs) :
                      /\ pairs[i][1] = k
                      /\ \A j \in 1..Len(pairs) : pairs[j][1] = k => j <= i
    IN [k \in ks |-> pairs[last(k)][2]]

\* A pairing that closes the gaps null keys leave: the m-th key that is
\* not null gets the m-th value.
SelectPairs_shifted(keys, vals, i) ==
    LET kept == SelectSeq([j \in 1..Len(keys) |-> j],
                          LAMBDA j : j >= i /\ ~IsNull(keys[j]))
    IN [m \in 1..Len(kept) |->
          <<to_string_lossy(CStr_from_ptr(keys[kept[m]].bytes)), vals[m]>>]

\* keys.iter().zip(values.iter_mut()).filter_map(..): the pairs (key, value)
\* at the indices from i on whose key pointer is not null.
RECURSIVE SelectPairs(_, _, _)
SelectPairs(keys, vals, i) ==
    IF i > Len(keys) THEN <<>>
    ELSE (IF IsNull(keys[i]) THEN <<>>
          ELSE << <<to_string_lossy(CStr_from_ptr(keys[i].bytes)), vals[i]>> >>)
         \o SelectPairs(keys, vals, i + 1)

\* A decoder that takes a tag it has no arm for as a string.
from_mpv_node_other_string(node) ==
    IF PointsTo(node.u, IsText)
    THEN NString(to_string_lossy(CStr_from_ptr(node.u.obj.bytes)))
    ELSE NWild

\* The arm `_ => Node::None` of from_mpv_node: node.u is not read.
from_mpv_node_other(node) == NNone

\* from_mpv_node.
RECURSIVE from_mpv_node(_, _)
from_mpv_node(node, env) ==
    CASE node.format = MPV_FORMAT_STRING ->
            IF PointsTo(node.u, IsText)
            THEN NString(to_string_lossy(CStr_from_ptr(node.u.obj.bytes)))
            ELSE NWild
      [] node.format = MPV_FORMAT_INT64 -> NInt(AsScalar(node.u, env))
      [] node.format = MPV_FORMAT_DOUBLE -> NDouble(AsScalar(node.u, env))
      [] node.format = MPV_FORMAT_FLAG -> NBool(AsScalar(node.u, env) # 0)
      [] node.format = MPV_FORMAT_NODE_ARRAY ->
            IF ~PointsTo(node.u, IsList) THEN NWild
            ELSE LET list == node.u.obj
                 IN NArray([i \in 1..list.num |->
                              from_mpv_node(ReadNode(list.values, i, env), env)])
      [] node.format = MPV_FORMAT_NODE_MAP ->
            IF ~PointsTo(node.u, IsList) \/ IsNull(node.u.obj.keys) THEN NWild
            ELSE LET list == node.u.obj
                     vals == [i \in 1..list.num |->
                                IF IsNull(list.keys.cells[i]) THEN NNone
                                ELSE from_mpv_node(
                                        ReadNode(list.values, i, env), env)]
                 IN NMap(CollectMap(SelectPairs(list.keys.cells, vals, 1)))
      [] node.format = MPV_FORMAT_BYTE_ARRAY ->
            IF ~PointsTo(node.u, IsByteArray) THEN NWild
            ELSE LET arr == node.u.obj
                 IN NByteArray(SubSeq(arr.data.bytes, 1, arr.size))
      [] OTHER -> from_mpv_node_other(node)

RECURSIVE Flatten(_)
Flatten(ss) == IF ss = <<>> THEN <<>> ELSE Head(ss) \o Flatten(Tail(ss))

\* mpv_free_node_contents: the native release routine, which releases what
\* the node refers to according to its tag, element by element, and never
\* the mpv_node it is handed.  The result lists the addresses released, in
\* order.
RECURSIVE mpv_free_node_contents(_, _)
mpv_free_node_contents(node, env) ==
    CASE node.format = MPV_FORMAT_STRING ->
            IF PointsTo(node.u, IsText) THEN <<node.u.obj.addr>>
            ELSE <<WildAddr>>
      [] node.format \in {MPV_FORMAT_NODE_ARRAY, MPV_FORMAT_NODE_MAP} ->
            IF ~PointsTo(node.u, IsList) THEN <<WildAddr>>
            ELSE LET list == node.u.obj
                     elems == Flatten([i \in 1..list.num |->
                                 mpv_free_node_contents(
                                     ReadNode(list.values, i, env), env)])
                     keys == IF IsNull(list.keys) THEN <<>>
                             ELSE Flatten([i \in 1..list.num |->
                                     IF IsNull(list.keys.cells[i]) THEN <<>>
                                     ELSE <<list.keys.cells[i].addr>>])
                                  \o (IF list.num = 0 THEN <<>>
                                      ELSE <<list.keys.addr>>)
                 IN elems \o keys
                    \o (IF list.num = 0 THEN <<>> ELSE <<list.values.addr>>)
                    \o <<list.addr>>
      [] node.format = MPV_FORMAT_BYTE_ARRAY ->
            IF ~PointsTo(node.u, IsByteArray) THEN <<WildAddr>>
            ELSE <<node.u.obj.data.addr, node.u.obj.addr>>
      [] OTHER -> <<>>
(***************************************************************************)
(* Results and errors.                                                     *)
(***************************************************************************)
Unit == "()"
Ok(v) == [tag |-> "Ok", val |-> v]
Err(c) == [tag |-> "Err", code |-> c]
Panic == [tag |-> "Panic"]
Pending == [tag |-> "Pending"]

\* impl From<NulError> for Error, impl From<Utf8Error> for Error.
Error_from_NulError == Err(MPV_ERROR_GENERIC)
Error_from_Utf8Error == Err(MPV_ERROR_GENERIC)

\* A result! that reports every failure as the generic error.
result_generic(c) ==
    IF c = MPV_ERROR_SUCCESS THEN Ok(Unit) ELSE Err(MPV_ERROR_GENERIC)

\* The macro result! (mpv_result! in the root crate).
result(c) == IF c = MPV_ERROR_SUCCESS THEN Ok(Unit) ELSE Err(c)

\* The codes a native call returns: the enum mpv_error, and in the
\* mpv_client crate, where the code is a plain int, also a positive code.
MinCode == -20
PositiveCode == 1
DeclaredCodes == MinCode..MPV_ERROR_SUCCESS
\* The codes tried on calls that carry a Node.
NodeCodes == {MPV_ERROR_SUCCESS, MPV_ERROR_PROPERTY_NOT_FOUND}
AllCodes == DeclaredCodes \cup {PositiveCode}
NativeCodes(crate) ==
    IF crate = "root" THEN DeclaredCodes ELSE DeclaredCodes \cup {PositiveCode}

\* mpv_error_string, the native lookup of a code's description.
mpv_error_string(c) ==
    CASE c = 0 -> "success"
      [] c = -1 -> "event queue full"
      [] c = -2 -> "memory allocation failed"
      [] c = -3 -> "core not uninitialized"
      [] c = -4 -> "invalid parameter"
      [] c = -5 -> "option not found"
      [] c = -6 -> "unsupported format for accessing option"
      [] c = -7 -> "error setting option"
      [] c = -8 -> "property not found"
      [] c = -9 -> "unsupported format for accessing property"
      [] c = -10 -> "property unavailable"
      [] c = -11 -> "error accessing property"
      [] c = -12 -> "error running command"
      [] c = -13 -> "loading failed"
      [] c = -14 -> "audio output initialization failed"
      [] c = -15 -> "video output initialization failed"
      [] c = -16 -> "no audio or video data played"
      [] c = -17 -> "unrecognized file format"
      [] c = -18 -> "not supported"
      [] c = -19 -> "operation not implemented"
      [] c = -20 -> "unspecified error"
      [] OTHER -> "unknown error"

\* The description an Error carries: error.rs reads it from the native
\* lookup when the error is formatted.
Error_description(e) == mpv_error_string(e.code)

(***************************************************************************)
(* The Format trait.                                                       *)
(***************************************************************************)
Crates == {"mpv_client", "root"}
Types(crate) ==
    IF crate = "root" THEN {"String", "bool", "i64", "f64"}
    ELSE {"String", "bool", "i64", "f64", "Node"}

MPV_FORMAT(T) ==
    CASE T = "String" -> MPV_FORMAT_STRING
      [] T = "bool" -> MPV_FORMAT_FLAG
      [] T = "i64" -> MPV_FORMAT_INT64
      [] T = "f64" -> MPV_FORMAT_DOUBLE
      [] T = "Node" -> MPV_FORMAT_NODE

BufAddr == <<<<>>, "cstr">>
NameAddr == <<<<>>, "name">>

\* The first half of to_mpv, up to the call of `fun`: what `self` is staged
\* as.  out is "ok" with the object `fun` is given a pointer to, "err" when
\* to_mpv returns early, "panic" when it unwinds; allocs are the
\* allocations standing when this half ends.
Staged(obj, allocs) ==
    [out |-> "ok", res |-> Pending, staged |-> obj, allocs |-> allocs]

\* A String handed over as it is, without the conversion to a C string.
String_to_mpv_stage_raw(data) ==
    Staged(WPtr([addr |-> BufAddr, bytes |-> data]), {BufAddr})

\* <String as Format>::to_mpv: CString::new(self)?, then a pointer to
\* str.as_ptr().
String_to_mpv_stage(data) ==
    LET str == CString_new(data)
    IN IF ~str.ok
       THEN [out |-> "err", res |-> Error_from_NulError, staged |-> NULL,
             allocs |-> {}]
       ELSE Staged(WPtr([addr |-> BufAddr, bytes |-> str.bytes]), {BufAddr})

\* <Node as Format>::to_mpv: to_mpv_node(&self).
Node_to_mpv_stage(data, env) ==
    LET r == to_mpv_node(data, <<>>, env)
    IN IF r.ok THEN Staged(r.ptr, r.allocs)
       ELSE [out |-> "panic", res |-> Panic, staged |-> NULL,
             allocs |-> r.allocs]

to_mpv_stage(T, data, env) ==
    CASE T = "String" -> String_to_mpv_stage(data)
      [] T = "bool" -> Staged(WFlag(IF data THEN 1 ELSE 0), {})
      [] T = "i64" -> Staged(WInt64(data), {})
      [] T = "f64" -> Staged(WDouble(data), {})
      [] T = "Node" -> Node_to_mpv_stage(data, env)

\* The second half of to_mpv, after `fun` returned: the addresses released
\* before to_mpv returns, in order.
to_mpv_release(T, staged, env) ==
    CASE T = "String" -> <<BufAddr>>
      [] T = "Node" -> mpv_free_node_contents(staged, env)
      [] OTHER -> <<>>
\* A to_mpv that releases what it staged before it calls `fun`.
to_mpv_steps_early(T) ==
    IF T \in {"String", "Node"} THEN <<"stage", "release", "fun">>
    ELSE <<"stage", "fun">>

\* The body of to_mpv as the order of its steps: stage `self`, call `fun`,
\* release the staged object (for a scalar there is nothing to release).
to_mpv_steps(T) ==
    IF T \in {"String", "Node"} THEN <<"stage", "fun", "release">>
    ELSE <<"stage", "fun">>

(***************************************************************************)
(* Inputs.                                                                 *)
(***************************************************************************)
TextX == <<120>>                         \* "x"
TextNul == <<97, 0, 98>>                 \* "a\0b"
Hello == <<104, 101, 108, 108, 111>>     \* "hello"
KeyA == <<97>>                           \* "a"
KeyB == <<98>>                           \* "b"
KeyNul == <<107, 0>>                     \* "k\0"
NamePause == <<112>>                     \* "p"
NameNul == <<112, 0, 113>>               \* "p\0q"

Atoms ==
    {NNone, NString(TextX), NString(TextNul), NInt(1), NDouble(15),
     NBool(TRUE), NBool(FALSE), NByteArray(<<>>), NByteArray(<<7>>)}
ArrayElems == {NInt(1), NString(TextX), NBool(TRUE), NString(TextNul)}
MapElems == {NInt(1), NString(TextX)}
Arrays == {NArray(a) : a \in UNION {[1..n -> ArrayElems] : n \in 0..MaxLen}}
Maps == {NMap(m) : m \in UNION {[D -> MapElems] : D \in SUBSET {KeyA, KeyB}}}
Example ==
    NMap(KeyA :> NInt(1) @@ KeyB :> NArray(<<NString(TextX), NBool(TRUE)>>))
Nested ==
    {Example,
     NArray(<<NArray(<<NInt(1)>>)>>),
     NArray(<<NNone>>),
     NArray(<<NByteArray(<<7>>), NDouble(15)>>),
     NMap(KeyNul :> NInt(1)),
     NMap(KeyA :> NArray(<<NString(TextNul)>>)),
     NMap(KeyA :> NInt(1) @@ KeyNul :> NString(TextX))}
Values == Atoms \cup Arrays \cup Maps \cup Nested

Names == {NamePause, NameNul}

\* Whether the oracle is consulted for a value: only where memory is read
\* through a list record, or a byte array of size 0 is allocated.
RECURSIVE UsesEnv(_)
UsesEnv(v) ==
    CASE v.kind = "Array" -> Len(v.val) > 0
      [] v.kind = "Map" -> DOMAIN v.val # {}
      [] v.kind = "ByteArray" -> Len(v.val) = 0
      [] OTHER -> FALSE

EnvsFor(T, data) == IF T = "Node" /\ UsesEnv(data) THEN Envs ELSE {Env0}

Data(T) ==
    CASE T = "String" -> {Hello, TextX, TextNul, <<>>}
      [] T = "bool" -> BOOLEAN
      [] T = "i64" -> {1, -1}
      [] T = "f64" -> {15}
      [] T = "Node" -> Values

(***************************************************************************)
(* State.                                                                  *)
(***************************************************************************)
VARIABLES
    phase,      \* "idle", "running", "in_fun", "returned", "panicked"
    ip,         \* the step of to_mpv_steps the call in flight is at
    call,       \* the call in flight or last made, with its arguments
    staged,     \* the object the marshalling callback is given a pointer to
    live,       \* allocations of the current call that are not released
    leaked,     \* number of allocations earlier calls left outstanding
    released,   \* addresses released during the current call, in order
    cbCalls,    \* times the marshalling callback was invoked in this call
    cbResult,   \* what the marshalling callback returned
    native,     \* the native calls made during this call, in order
    trace,      \* the steps of to_mpv executed during this call, in order
    ret,        \* what the call returned
    ncalls      \* set_property calls begun

\* The application's threads and the native contexts they work on.
Threads == {"t1", "t2"}
Contexts == {"c1", "c2", "c3"}

VARIABLES
    threads,    \* per thread: where it is, the wrappers and the event it holds
    contexts    \* per native context: polls made, properties observed

session == <<threads, contexts>>

vars == <<phase, ip, call, staged, live, leaked, released, cbCalls, cbResult,
          native, trace, ret, ncalls, threads, contexts>>

\* The context a thread made with Client::new.
OwnContext(t) == IF t = "t1" THEN "c1" ELSE "c2"

NoEvent == [ctx |-> "none", poll |-> 0]

NoCall == [fn |-> "none"]

Init ==
    /\ phase = "idle"
    /\ ip = 0
    /\ call = NoCall
    /\ staged = NULL
    /\ live = {}
    /\ leaked = 0
    /\ released = <<>>
    /\ cbCalls = 0
    /\ cbResult = Pending
    /\ native = <<>>
    /\ trace = <<>>
    /\ ret = Pending
    /\ ncalls = 0
    /\ threads = [t \in Threads |->
                     [pc |-> "idle", ctx |-> "none", mine |-> 0,
                      clients |-> {OwnContext(t)}, handles |-> {},
                      event |-> NoEvent,
                      read |-> [of |-> 0, latest |-> 0, saw |-> 0]]]
    /\ contexts = [c \in Contexts |->
                      [polls |-> 0, observed |-> {},
                       created |-> \E t \in Threads : c = OwnContext(t),
                       parent |-> "none", initialized |-> FALSE,
                       drops |-> 0, destroys |-> 0, after |-> FALSE]]

Range(s) == {s[i] : i \in 1..Len(s)}

CanCall == phase = "idle"

\* A call starts from a state that holds no record of an earlier call.
Fresh == UNCHANGED <<leaked, released, cbCalls, cbResult, trace>>

\* The caller is done with the result of a call.  What the call left
\* allocated stays allocated; no pointer to it is left.
Forget ==
    /\ phase = "returned"
    /\ phase' = "idle"
    /\ ip' = 0
    /\ call' = NoCall
    /\ staged' = NULL
    /\ leaked' = leaked + Cardinality(live)
    /\ live' = {}
    /\ released' = <<>>
    /\ cbCalls' = 0
    /\ cbResult' = Pending
    /\ native' = <<>>
    /\ trace' = <<>>
    /\ ret' = Pending
    /\ UNCHANGED ncalls
    /\ UNCHANGED session

(***************************************************************************)
(* Handle::set_property, in the steps of T::to_mpv.                        *)
(***************************************************************************)
\* let name = CString::new(name.as_ref())?;
set_property_Begin(crate, T, name, data, env) ==
    /\ CanCall
    /\ ncalls < MaxCalls
    /\ Fresh
    /\ ncalls' = ncalls + 1
    /\ staged' = NULL
    /\ native' = <<>>
    /\ call' = [fn |-> "set_property", crate |-> crate, T |-> T,
                name |-> name, data |-> data, env |-> env]
    /\ IF CString_new(name).ok
       THEN /\ phase' = "running"
            /\ ip' = 1
            /\ live' = {NameAddr}
            /\ ret' = Pending
       ELSE /\ phase' = "returned"
            /\ ip' = 0
            /\ live' = {}
            /\ ret' = Error_from_NulError
    /\ UNCHANGED session

InToMpv == phase = "running" /\ call.fn = "set_property"

AtStep(s) ==
    /\ InToMpv
    /\ ip <= Len(to_mpv_steps(call.T))
    /\ to_mpv_steps(call.T)[ip] = s

\* data.to_mpv(..): staging.
to_mpv_Stage ==
    /\ AtStep("stage")
    /\ LET r == to_mpv_stage(call.T, call.data, call.env)
       IN CASE r.out = "ok" ->
                 /\ staged' = r.staged
                 /\ live' = live \cup r.allocs
                 /\ phase' = "running"
                 /\ ip' = ip + 1
                 /\ ret' = ret
            [] r.out = "err" ->
                 /\ staged' = staged
                 /\ live' = {}
                 /\ phase' = "returned"
                 /\ ip' = 0
                 /\ ret' = r.res
            [] r.out = "panic" ->
                 /\ staged' = staged
                 /\ live' = r.allocs
                 /\ phase' = "panicked"
                 /\ ip' = 0
                 /\ ret' = Panic
    /\ trace' = Append(trace, "stage")
    /\ UNCHANGED <<call, leaked, released, cbCalls, cbResult, native, ncalls>>
    /\ UNCHANGED session

\* fun(ptr): the closure of set_property makes the native call.
to_mpv_FunEnter ==
    /\ AtStep("fun")
    /\ phase' = "in_fun"
    /\ cbCalls' = cbCalls + 1
    /\ native' = Append(native,
                   [fn |-> "mpv_set_property", name |-> CString_new(call.name).bytes,
                    format |-> MPV_FORMAT(call.T), data |-> staged])
    /\ trace' = Append(trace, "fun")
    /\ UNCHANGED <<ip, call, staged, live, leaked, released, cbResult, ret,
                   ncalls>>
    /\ UNCHANGED session

\* mpv_set_property returns c; the closure returns result!(c).
to_mpv_FunReturn(c) ==
    /\ phase = "in_fun"
    /\ call.fn = "set_property"
    /\ c \in NativeCodes(call.crate)
    /\ call.T = "Node" => c \in NodeCodes
    /\ phase' = "running"
    /\ ip' = ip + 1
    /\ cbResult' = result(c)
    /\ native' = [native EXCEPT ![Len(native)] = @ @@ [rc |-> c]]
    /\ UNCHANGED <<call, staged, live, leaked, released, cbCalls, trace, ret,
                   ncalls>>
    /\ UNCHANGED session

\* The release that follows in to_mpv.
to_mpv_Release ==
    /\ AtStep("release")
    /\ LET freed == to_mpv_release(call.T, staged, call.env)
       IN /\ released' = released \o freed
          /\ live' = live \ Range(freed)
    /\ ip' = ip + 1
    /\ trace' = Append(trace, "release")
    /\ UNCHANGED <<phase, call, staged, leaked, cbCalls, cbResult, native, ret,
                   ncalls>>
    /\ UNCHANGED session

\* to_mpv returns `res`, set_property returns it and drops `name`.
set_property_Return ==
    /\ InToMpv
    /\ ip > Len(to_mpv_steps(call.T))
    /\ phase' = "returned"
    /\ ip' = 0
    /\ ret' = cbResult
    /\ live' = live \ {NameAddr}
    /\ UNCHANGED <<call, staged, leaked, released, cbCalls, cbResult, native,
                   trace, ncalls>>
    /\ UNCHANGED session

SetProperty ==
    \/ \E crate \in Crates : \E T \in Types(crate) : \E name \in Names :
         \E data \in Data(T) :
           \E env \in EnvsFor(T, data) :
              set_property_Begin(crate, T, name, data, env)
    \/ to_mpv_Stage
    \/ to_mpv_FunEnter
    \/ \E c \in AllCodes : to_mpv_FunReturn(c)
    \/ to_mpv_Release
    \/ set_property_Return

SpecSetProperty == Init /\ [][SetProperty \/ Forget]_vars
(***************************************************************************)
(* What the native side hands back: text and nodes it allocated itself,    *)
(* laid out as the protocol says (a list's values are mpv_node structs).   *)
(***************************************************************************)
NativeRoot == <<0>>
TextInvalid == <<120, 255>>              \* "x" and a byte that is not UTF-8

NativeText(s, p) == [addr |-> <<p, "cstr">>, bytes |-> Append(s, NUL)]

RECURSIVE native_node(_, _)
native_node(v, p) ==
    CASE v.kind = "None" -> MpvNode(MPV_FORMAT_NONE, WZero)
      [] v.kind = "String" ->
            MpvNode(MPV_FORMAT_STRING, WPtr(NativeText(v.val, p)))
      [] v.kind = "Int" -> MpvNode(MPV_FORMAT_INT64, WInt64(v.val))
      [] v.kind = "Double" -> MpvNode(MPV_FORMAT_DOUBLE, WDouble(v.val))
      [] v.kind = "Bool" ->
            MpvNode(MPV_FORMAT_FLAG, WFlag(IF v.val THEN 1 ELSE 0))
      [] v.kind = "Array" ->
            LET n == Len(v.val)
            IN MpvNode(MPV_FORMAT_NODE_ARRAY,
                 WPtr([addr |-> <<p, "list">>, num |-> n,
                       values |-> ArrayObj(<<p, "values">>, "node",
                            [i \in 1..n |-> native_node(v.val[i], p \o <<i>>)]),
                       keys |-> NULL]))
      [] v.kind = "Map" ->
            LET ks == MapKeys(v.val)
                n == Len(ks)
            IN MpvNode(MPV_FORMAT_NODE_MAP,
                 WPtr([addr |-> <<p, "list">>, num |-> n,
                       values |-> ArrayObj(<<p, "values">>, "node",
                            [i \in 1..n |->
                                native_node(v.val[ks[i]], p \o <<i>>)]),
                       keys |-> ArrayObj(<<p, "keys">>, "cstr",
                            [i \in 1..n |->
                                [addr |-> <<p \o <<i>>, "key">>,
                                 bytes |-> Append(ks[i], NUL)]])]))
      [] v.kind = "ByteArray" ->
            MpvNode(MPV_FORMAT_BYTE_ARRAY,
                 WPtr([addr |-> <<p, "ba">>, size |-> Len(v.val),
                       data |-> [addr |-> <<p, "badata">>, bytes |-> v.val]]))

NativeTexts == {TextX, TextInvalid}
NativeValues ==
    {NNone, NInt(1), NString(TextX), NString(TextInvalid),
     NArray(<<NInt(1), NString(TextX)>>), Example}

\* What a successful mpv_get_property can write into the transient of T.
NativeData(T) ==
    CASE T = "String" -> {WPtr(NativeText(s, NativeRoot)) : s \in NativeTexts}
      [] T = "bool" -> {WFlag(0), WFlag(1)}
      [] T = "i64" -> {WInt64(7)}
      [] T = "f64" -> {WDouble(15)}
      [] T = "Node" -> {native_node(v, NativeRoot) : v \in NativeValues}

(***************************************************************************)
(* The calls of Handle that consist of one native call.                    *)
(***************************************************************************)
Ids == {0, 7}
Priorities == {0}
ArgLists == {<<>>, <<TextX>>, <<TextX, Hello>>, <<TextX, TextNul>>, <<TextNul>>}

\* What a call did: its result, the native calls it made, and for from_mpv
\* the callback's uses and the releases.
Out(r, calls) ==
    [ret |-> r, native |-> calls, cbCalls |-> 0, cbResult |-> Pending,
     released |-> <<>>]

\* A raw_args without the closing null pointer.
raw_args_unterminated(args) ==
    [i \in 1..Len(args) |->
        [addr |-> <<<<i>>, "cstr">>, bytes |-> CString_new(args[i]).bytes]]

\* args.iter().map(|s| s.as_ptr()).collect(), then push(null).
raw_args(args) ==
    [i \in 1..(Len(args) + 1) |->
        IF i <= Len(args)
        THEN [addr |-> <<<<i>>, "cstr">>, bytes |-> CString_new(args[i]).bytes]
        ELSE NULL]

\* The buffers of `args: Vec<CString>`, which is in scope until the
\* function returns.
args_buffers(args) == {<<<<i>>, "cstr">> : i \in 1..Len(args)}

\* Handle::command: CString::new(..).unwrap() on every argument.
command(args, c) ==
    IF \E i \in 1..Len(args) : ~CString_new(args[i]).ok THEN Out(Panic, <<>>)
    ELSE Out(result(c),
             << [fn |-> "mpv_command", args |-> raw_args(args),
                 alive |-> args_buffers(args), rc |-> c] >>)

\* Handle::command_async.
command_async(reply, args, c) ==
    IF \E i \in 1..Len(args) : ~CString_new(args[i]).ok THEN Out(Panic, <<>>)
    ELSE Out(result(c),
             << [fn |-> "mpv_command_async", reply |-> reply,
                 args |-> raw_args(args), alive |-> args_buffers(args),
                 rc |-> c] >>)

\* The text read through a pointer to zero-terminated bytes; once the
\* buffer is released the read is undefined.
CStr_read(obj, isReleased) ==
    IF isReleased THEN [ok |-> FALSE, text |-> <<>>, wild |-> TRUE]
    ELSE CStr_to_str(CStr_from_ptr(obj.bytes)) @@ [wild |-> FALSE]

\* A String::from_mpv that calls mpv_free before it copies the text.
String_from_mpv_free_first(wrote) ==
    LET freed == <<wrote.obj.addr>>
        str == CStr_read(wrote.obj, TRUE)
    IN [ret |-> IF str.wild THEN [tag |-> "Wild"]
                ELSE IF str.ok THEN Ok(str.text) ELSE Error_from_Utf8Error,
        released |-> freed]

\* String::from_mpv once the callback succeeded: str.to_str().map(to_owned)
\* copies the text, then mpv_free(ptr), then Ok(str?).
String_from_mpv_read(wrote) ==
    LET str == CStr_read(wrote.obj, FALSE)
        freed == <<wrote.obj.addr>>
    IN [ret |-> IF str.wild THEN [tag |-> "Wild"]
                ELSE IF str.ok THEN Ok(str.text) ELSE Error_from_Utf8Error,
        released |-> freed]

\* A from_mpv that releases the transient whatever the callback returned.
from_mpv_releasing(T, c, wrote) ==
    LET res == result(c)
        done(r, freed) ==
            [ret |-> r, cbCalls |-> 1, cbResult |-> res, released |-> freed]
    IN IF res.tag = "Err"
       THEN done(res, IF T \in {"String", "Node"} THEN <<NullAddr>> ELSE <<>>)
       ELSE CASE T = "String" ->
                    LET str == CStr_to_str(CStr_from_ptr(wrote.obj.bytes))
                    IN done(IF str.ok THEN Ok(str.text)
                            ELSE Error_from_Utf8Error,
                            <<wrote.obj.addr>>)
              [] T = "bool" -> done(Ok(wrote.v # 0), <<>>)
              [] T = "i64" -> done(Ok(wrote.v), <<>>)
              [] T = "f64" -> done(Ok(wrote.v), <<>>)
              [] T = "Node" ->
                    done(Ok(from_mpv_node(wrote, Env0)),
                         mpv_free_node_contents(wrote, Env0))

\* T::from_mpv(fun) where fun returned result!(c) and, on success, the
\* native side wrote `wrote` into the transient.
from_mpv(T, c, wrote) ==
    LET res == result(c)
        done(r, freed) ==
            [ret |-> r, cbCalls |-> 1, cbResult |-> res, released |-> freed]
    IN IF res.tag = "Err" THEN done(res, <<>>)
       ELSE CASE T = "String" ->
                    LET r == String_from_mpv_read(wrote)
                    IN done(r.ret, r.released)
              [] T = "bool" -> done(Ok(wrote.v # 0), <<>>)
              [] T = "i64" -> done(Ok(wrote.v), <<>>)
              [] T = "f64" -> done(Ok(wrote.v), <<>>)
              [] T = "Node" ->
                    done(Ok(from_mpv_node(wrote, Env0)),
                         mpv_free_node_contents(wrote, Env0))

\* Handle::get_property.
get_property(T, name, c, wrote) ==
    IF ~CString_new(name).ok THEN Out(Error_from_NulError, <<>>)
    ELSE from_mpv(T, c, wrote) @@
         [native |-> << [fn |-> "mpv_get_property",
                         name |-> CString_new(name).bytes,
                         format |-> MPV_FORMAT(T), rc |-> c,
                         wrote |-> wrote] >>]

\* Handle::observe_property; the root crate takes the format from the
\* caller.
observe_property(reply, name, format, c) ==
    IF ~CString_new(name).ok THEN Out(Error_from_NulError, <<>>)
    ELSE Out(result(c),
             << [fn |-> "mpv_observe_property", reply |-> reply,
                 name |-> CString_new(name).bytes, format |-> format,
                 rc |-> c] >>)

\* An unobserve_property that cancels the observations made with id 0.
unobserve_property_zero(id, c) ==
    Out(result(c), << [fn |-> "mpv_unobserve_property", id |-> 0, rc |-> c] >>)

\* Handle::unobserve_property.
unobserve_property(id, c) ==
    Out(result(c), << [fn |-> "mpv_unobserve_property", id |-> id, rc |-> c] >>)

\* A hook_add that hands the name over without CString::new.
hook_add_unchecked(reply, name, priority, c) ==
    Out(result(c),
        << [fn |-> "mpv_hook_add", reply |-> reply, name |-> name,
            priority |-> priority, rc |-> c] >>)

\* Handle::hook_add.
hook_add(reply, name, priority, c) ==
    IF ~CString_new(name).ok THEN Out(Error_from_NulError, <<>>)
    ELSE Out(result(c),
             << [fn |-> "mpv_hook_add", reply |-> reply,
                 name |-> CString_new(name).bytes, priority |-> priority,
                 rc |-> c] >>)

\* Handle::hook_continue.
hook_continue(id, c) ==
    Out(result(c), << [fn |-> "mpv_hook_continue", id |-> id, rc |-> c] >>)

\* Handle::initialize.
initialize(c) == Out(result(c), << [fn |-> "mpv_initialize", rc |-> c] >>)

\* A call made in one step.
AtomicCall(callRec, out) ==
    /\ CanCall
    /\ call' = callRec
    /\ ret' = out.ret
    /\ native' = out.native
    /\ cbCalls' = out.cbCalls
    /\ cbResult' = out.cbResult
    /\ released' = out.released
    /\ phase' = IF out.ret = Panic THEN "panicked" ELSE "returned"
    /\ UNCHANGED <<ip, staged, live, leaked, trace, ncalls>>

\* A facade call on a context whose native state is not followed.
Atomic(callRec, out) == AtomicCall(callRec, out) /\ UNCHANGED session

Command ==
    \E crate \in Crates : \E args \in ArgLists : \E c \in NativeCodes(crate) :
        Atomic([fn |-> "command", crate |-> crate, args |-> args],
               command(args, c))

CommandAsync ==
    \E crate \in Crates : \E reply \in Ids : \E args \in ArgLists :
      \E c \in NativeCodes(crate) :
        Atomic([fn |-> "command_async", crate |-> crate, reply |-> reply,
                args |-> args],
               command_async(reply, args, c))

GetProperty ==
    \E crate \in Crates : \E T \in Types(crate) : \E name \in Names :
      \E c \in NativeCodes(crate) :
        \E wrote \in (IF c = MPV_ERROR_SUCCESS /\ ~HasNul(name)
                      THEN NativeData(T) ELSE {NULL}) :
          Atomic([fn |-> "get_property", crate |-> crate, T |-> T,
                  name |-> name],
                 get_property(T, name, c, wrote))

ObserveProperty ==
    \E crate \in Crates : \E T \in Types(crate) : \E reply \in Ids :
      \E name \in Names : \E c \in NativeCodes(crate) :
        Atomic([fn |-> "observe_property", crate |-> crate, T |-> T,
                reply |-> reply, name |-> name],
               observe_property(reply, name, MPV_FORMAT(T), c))

UnobserveProperty ==
    \E crate \in Crates : \E id \in Ids : \E c \in NativeCodes(crate) :
        Atomic([fn |-> "unobserve_property", crate |-> crate, id |-> id],
               unobserve_property(id, c))

HookAdd ==
    \E crate \in Crates : \E reply \in Ids : \E name \in Names :
      \E priority \in Priorities : \E c \in NativeCodes(crate) :
        Atomic([fn |-> "hook_add", crate |-> crate, reply |-> reply,
                name |-> name, priority |-> priority],
               hook_add(reply, name, priority, c))

HookContinue ==
    \E crate \in Crates : \E id \in Ids : \E c \in NativeCodes(crate) :
        Atomic([fn |-> "hook_continue", crate |-> crate, id |-> id],
               hook_continue(id, c))

Initialize ==
    \E crate \in Crates : \E c \in NativeCodes(crate) :
        Atomic([fn |-> "initialize", crate |-> crate], initialize(c))

\* A native context pointer, as mpv_create and mpv_create_client return it.
Context(n) == [addr |-> <<<<n>>, "mpv_handle">>]
CreatedHandles == {NULL, Context(1)}

Client(handle) == [tag |-> "Client", handle |-> handle]

\* Client::new.  In the root crate it returns the Client itself, built by
\* Handle::from_ptr, which asserts that the pointer is not null.
Client_new(crate, handle) ==
    LET calls == << [fn |-> "mpv_create", rv |-> handle] >>
    IN IF crate = "root"
       THEN Out(IF IsNull(handle) THEN Panic ELSE Client(handle), calls)
       ELSE Out(IF IsNull(handle) THEN Err(MPV_ERROR_NOMEM)
                ELSE Ok(Client(handle)), calls)

\* Handle::create_client and Handle::create_weak_client; `fn` is the native
\* function called.
create_client(crate, fn, name, handle) ==
    LET calls == << [fn |-> fn, name |-> CString_new(name).bytes,
                     rv |-> handle] >>
    IN IF ~CString_new(name).ok THEN Out(Error_from_NulError, <<>>)
       ELSE IF crate = "root"
       THEN Out(IF IsNull(handle) THEN Panic ELSE Ok(Client(handle)), calls)
       ELSE Out(IF IsNull(handle) THEN Err(MPV_ERROR_NOMEM)
                ELSE Ok(Client(handle)), calls)

ClientNew ==
    \E crate \in Crates : \E handle \in CreatedHandles :
        Atomic([fn |-> "Client_new", crate |-> crate, handle |-> handle],
               Client_new(crate, handle))

CreateClient ==
    \E crate \in Crates : \E name \in Names : \E handle \in CreatedHandles :
      \E weak \in BOOLEAN :
        Atomic([fn |-> IF weak THEN "create_weak_client" ELSE "create_client",
                crate |-> crate, name |-> name, handle |-> handle],
               create_client(crate,
                             IF weak THEN "mpv_create_weak_client"
                             ELSE "mpv_create_client",
                             name, handle))

Next ==
    \/ SetProperty
    \/ ClientNew
    \/ CreateClient
    \/ Command
    \/ CommandAsync
    \/ GetProperty
    \/ ObserveProperty
    \/ UnobserveProperty
    \/ HookAdd
    \/ HookContinue
    \/ Initialize
    \/ Forget

Spec == Init /\ [][Next]_vars

(***************************************************************************)
(* Event::from_ptr and the payload wrappers.                               *)
(***************************************************************************)
MPV_EVENT_NONE == 0
MPV_EVENT_SHUTDOWN == 1
MPV_EVENT_LOG_MESSAGE == 2
MPV_EVENT_GET_PROPERTY_REPLY == 3
MPV_EVENT_SET_PROPERTY_REPLY == 4
MPV_EVENT_COMMAND_REPLY == 5
MPV_EVENT_START_FILE == 6
MPV_EVENT_END_FILE == 7
MPV_EVENT_FILE_LOADED == 8
MPV_EVENT_IDLE == 11
MPV_EVENT_TICK == 14
MPV_EVENT_CLIENT_MESSAGE == 16
MPV_EVENT_VIDEO_RECONFIG == 17
MPV_EVENT_AUDIO_RECONFIG == 18
MPV_EVENT_SEEK == 20
MPV_EVENT_PLAYBACK_RESTART == 21
MPV_EVENT_PROPERTY_CHANGE == 22
MPV_EVENT_QUEUE_OVERFLOW == 24
MPV_EVENT_HOOK == 25

\* The variants of the root crate's enum mpv_event_id.
DeclaredEventIds ==
    {MPV_EVENT_NONE, MPV_EVENT_SHUTDOWN, MPV_EVENT_LOG_MESSAGE,
     MPV_EVENT_GET_PROPERTY_REPLY, MPV_EVENT_SET_PROPERTY_REPLY,
     MPV_EVENT_COMMAND_REPLY, MPV_EVENT_START_FILE, MPV_EVENT_END_FILE,
     MPV_EVENT_FILE_LOADED, MPV_EVENT_IDLE, MPV_EVENT_TICK,
     MPV_EVENT_CLIENT_MESSAGE, MPV_EVENT_VIDEO_RECONFIG,
     MPV_EVENT_AUDIO_RECONFIG, MPV_EVENT_SEEK, MPV_EVENT_PLAYBACK_RESTART,
     MPV_EVENT_PROPERTY_CHANGE, MPV_EVENT_QUEUE_OVERFLOW, MPV_EVENT_HOOK}

\* The discriminants Event::from_ptr has an arm for.
HandledEventIds ==
    DeclaredEventIds \ {MPV_EVENT_NONE, MPV_EVENT_IDLE, MPV_EVENT_TICK}

EvNone == [kind |-> "None"]
EvPanic == [kind |-> "Panic"]      \* an assert! failed
EvFault == [kind |-> "Fault"]      \* undefined behaviour ended the program
Marker(kind) == [kind |-> kind]

\* Property::from_ptr, LogMessage::from_ptr, ...: assert!(!ptr.is_null()).
\* Given the event to build around the wrapped pointer.
Wrapper_from_ptr(ptr, event) == IF IsNull(ptr) THEN EvPanic ELSE event

\* A decoder that keeps only the low two bits of the reply id.
reply_id_truncated(event) == event.reply_userdata % 4

\* (*event).reply_userdata, as Event::from_ptr passes it on.
reply_id(event) == event.reply_userdata

\* The arms of the match in Event::from_ptr.
Event_match(crate, event) ==
    LET id == event.event_id
    IN CASE id = MPV_EVENT_SHUTDOWN -> Marker("Shutdown")
         [] id = MPV_EVENT_LOG_MESSAGE ->
               IF crate = "root" THEN Marker("LogMessage")
               ELSE Wrapper_from_ptr(event.data,
                        [kind |-> "LogMessage", payload |-> event.data])
         [] id = MPV_EVENT_GET_PROPERTY_REPLY ->
               Wrapper_from_ptr(event.data,
                   [kind |-> "GetPropertyReply", res |-> result(event.error),
                    id |-> reply_id(event), payload |-> event.data])
         [] id = MPV_EVENT_SET_PROPERTY_REPLY ->
               [kind |-> "SetPropertyReply", res |-> result(event.error),
                id |-> reply_id(event)]
         [] id = MPV_EVENT_COMMAND_REPLY ->
               [kind |-> "CommandReply", res |-> result(event.error),
                id |-> reply_id(event)]
         [] id = MPV_EVENT_START_FILE ->
               Wrapper_from_ptr(event.data,
                   [kind |-> "StartFile", payload |-> event.data])
         [] id = MPV_EVENT_END_FILE ->
               IF crate = "root" THEN Marker("EndFile")
               ELSE Wrapper_from_ptr(event.data,
                        [kind |-> "EndFile", payload |-> event.data])
         [] id = MPV_EVENT_FILE_LOADED -> Marker("FileLoaded")
         [] id = MPV_EVENT_CLIENT_MESSAGE ->
               Wrapper_from_ptr(event.data,
                   [kind |-> "ClientMessage", payload |-> event.data])
         [] id = MPV_EVENT_VIDEO_RECONFIG -> Marker("VideoReconfig")
         [] id = MPV_EVENT_AUDIO_RECONFIG -> Marker("AudioReconfig")
         [] id = MPV_EVENT_SEEK -> Marker("Seek")
         [] id = MPV_EVENT_PLAYBACK_RESTART -> Marker("PlaybackRestart")
         [] id = MPV_EVENT_PROPERTY_CHANGE ->
               Wrapper_from_ptr(event.data,
                   [kind |-> "PropertyChange", id |-> reply_id(event),
                    payload |-> event.data])
         [] id = MPV_EVENT_QUEUE_OVERFLOW -> Marker("QueueOverflow")
         [] id = MPV_EVENT_HOOK ->
               Wrapper_from_ptr(event.data,
                   [kind |-> "Hook", id |-> reply_id(event),
                    payload |-> event.data])
         [] OTHER -> EvNone

\* What reading a value that is no variant of a Rust enum can lead to.
UbOutcomes == {"arm", "fault"}

\* Event::from_ptr.  In the root crate event_id is read as the Rust enum
\* mpv_event_id, so a discriminant that is not one of its variants is an
\* invalid value: the match may still reach an arm, or the program faults.
\* Neither crate tests the record pointer before (*event).event_id: through
\* a null pointer the read faults, or finds what lies at address 0.
Event_from_ptr(crate, event, ub) ==
    IF IsNull(event) /\ ub = "fault" THEN EvFault
    ELSE IF crate = "root" /\ event.event_id \notin DeclaredEventIds
            /\ ub = "fault"
    THEN EvFault
    ELSE Event_match(crate, event)

\* Event records the native side can hand out.
MaxEventId == 26
EventIds == 0..MaxEventId
EventErrors == {MPV_ERROR_SUCCESS, MPV_ERROR_PROPERTY_NOT_FOUND}
PayloadAddr == <<NativeRoot, "payload">>
EventAddr == <<NativeRoot, "event">>

\* mpv_wait_event returning no record: a null pointer.  The fields stand
\* for what a read through it finds when it does not fault.
NullEvent ==
    [addr |-> NullAddr, event_id |-> MPV_EVENT_NONE,
     error |-> MPV_ERROR_SUCCESS, reply_userdata |-> 0, data |-> NULL]

\* What a property payload holds, by format: the value, as a Node.
PropertyStored ==
    [format : {MPV_FORMAT_STRING, MPV_FORMAT_OSD_STRING},
     value : {NString(s) : s \in NativeTexts}]
    \cup [format : {MPV_FORMAT_FLAG}, value : {NBool(TRUE), NBool(FALSE)}]
    \cup [format : {MPV_FORMAT_INT64}, value : {NInt(7)}]
    \cup [format : {MPV_FORMAT_DOUBLE}, value : {NDouble(15)}]
    \cup [format : {MPV_FORMAT_NODE}, value : NativeValues]
    \cup [format : {MPV_FORMAT_NONE}, value : {NNone}]

\* struct mpv_event_property for a stored value.
PropertyPayload(s) ==
    [addr |-> PayloadAddr,
     name |-> NativeText(NamePause, <<0, 0>>),
     format |-> s.format,
     data |->
        IF s.format = MPV_FORMAT_NONE THEN NULL
        ELSE [addr |-> <<NativeRoot, "data">>,
              cell |->
                CASE s.format \in {MPV_FORMAT_STRING, MPV_FORMAT_OSD_STRING} ->
                        WPtr(NativeText(s.value.val, NativeRoot))
                  [] s.format = MPV_FORMAT_FLAG ->
                        WFlag(IF s.value.val THEN 1 ELSE 0)
                  [] s.format = MPV_FORMAT_INT64 -> WInt64(s.value.val)
                  [] s.format = MPV_FORMAT_DOUBLE -> WDouble(s.value.val)
                  [] s.format = MPV_FORMAT_NODE ->
                        native_node(s.value, NativeRoot)]]

OpaquePayload == [addr |-> PayloadAddr]

IsPropertyEvent(id) ==
    id \in {MPV_EVENT_GET_PROPERTY_REPLY, MPV_EVENT_PROPERTY_CHANGE}

\* struct mpv_event_hook, mpv_event_start_file, mpv_event_client_message.
HookPayloads ==
    {[addr |-> PayloadAddr, name |-> NativeText(s, <<0, 0>>), id |-> i] :
        s \in NativeTexts, i \in Ids}
StartFilePayloads == {[addr |-> PayloadAddr, playlist_entry_id |-> 7]}
ClientMessagePayloads ==
    {[addr |-> PayloadAddr, num_args |-> Len(a),
      args |-> [i \in 1..Len(a) |-> NativeText(a[i], <<i>>)]] :
        a \in {<<>>, <<TextX>>, <<TextX, TextInvalid>>}}

\* What the data pointer of a record of kind `id` can be.
Payloads(id) ==
    {NULL} \cup
    CASE id = MPV_EVENT_HOOK -> HookPayloads
      [] id = MPV_EVENT_START_FILE -> StartFilePayloads
      [] id = MPV_EVENT_CLIENT_MESSAGE -> ClientMessagePayloads
      [] IsPropertyEvent(id) -> {}
      [] OTHER -> {OpaquePayload}

\* Handle::wait_event: Event::from_ptr(mpv_wait_event(..)).  `stored` is
\* what the native side put into a property payload.
wait_event(crate, event, stored, ub) ==
    /\ CanCall
    /\ call' = [fn |-> "wait_event", crate |-> crate, event |-> event,
                stored |-> stored, ub |-> ub]
    /\ staged' = event
    /\ native' = << [fn |-> "mpv_wait_event"] >>
    /\ ret' = Event_from_ptr(crate, event, ub)
    /\ phase' = IF ret'.kind \in {"Panic", "Fault"} THEN "panicked"
                ELSE "returned"
    /\ UNCHANGED <<ip, live, leaked, released, cbCalls, cbResult, trace,
                   ncalls>>
    /\ UNCHANGED session

WaitEvent ==
    \E crate \in Crates : \E id \in EventIds : \E err \in EventErrors :
      \E reply \in Ids : \E ub \in UbOutcomes :
        /\ (crate = "root" /\ id \notin DeclaredEventIds) \/ ub = "arm"
        /\ \/ \E s \in PropertyStored :
              /\ IsPropertyEvent(id)
              /\ wait_event(crate,
                    [addr |-> EventAddr, event_id |-> id, error |-> err,
                     reply_userdata |-> reply, data |-> PropertyPayload(s)],
                    s, ub)
           \/ \E data \in Payloads(id) :
              /\ wait_event(crate,
                    [addr |-> EventAddr, event_id |-> id, error |-> err,
                     reply_userdata |-> reply, data |-> data],
                    [format |-> MPV_FORMAT_NONE, value |-> NNone], ub)

\* A poll to which the native side answers with no record at all.
WaitNoEvent ==
    \E crate \in Crates : \E ub \in UbOutcomes :
        wait_event(crate, NullEvent,
                   [format |-> MPV_FORMAT_NONE, value |-> NNone], ub)

Some(v) == [tag |-> "Some", val |-> v]
None == [tag |-> "None"]

\* T::from_ptr(ptr) applied to the data pointer of a property payload: the
\* result, and what it released.
from_ptr(T, data) ==
    CASE T = "String" ->
            LET str == CStr_to_str(CStr_from_ptr(data.cell.obj.bytes))
            IN [res |-> IF str.ok THEN Ok(str.text) ELSE Error_from_Utf8Error,
                deref |-> TRUE, freed |-> <<>>]
      [] T = "bool" ->
            [res |-> Ok(AsScalar(data.cell, Env0) # 0), deref |-> TRUE,
             freed |-> <<>>]
      [] T \in {"i64", "f64"} ->
            [res |-> Ok(AsScalar(data.cell, Env0)), deref |-> TRUE,
             freed |-> <<>>]
      [] T = "Node" ->
            IF IsNull(data)
            THEN [res |-> Ok(NNone), deref |-> FALSE, freed |-> <<>>]
            ELSE [res |-> Ok(from_mpv_node(data.cell, Env0)), deref |-> TRUE,
                  freed |-> mpv_free_node_contents(data.cell, Env0)]

\* A Property::data that lets a bool read an int64 payload.
Property_data_lenient(T, prop) ==
    IF \/ prop.format = MPV_FORMAT(T)
       \/ (T = "bool" /\ prop.format = MPV_FORMAT_INT64)
    THEN LET r == from_ptr(T, prop.data)
         IN [acc |-> "data", T |-> T,
             res |-> IF r.res.tag = "Ok" THEN Some(r.res.val) ELSE None,
             deref |-> r.deref, freed |-> r.freed]
    ELSE [acc |-> "data", T |-> T, res |-> None, deref |-> FALSE,
          freed |-> <<>>]

\* Property::data::<T>().
Property_data(T, prop) ==
    IF prop.format = MPV_FORMAT(T)
    THEN LET r == from_ptr(T, prop.data)
         IN [acc |-> "data", T |-> T,
             res |-> IF r.res.tag = "Ok" THEN Some(r.res.val) ELSE None,
             deref |-> r.deref, freed |-> r.freed]
    ELSE [acc |-> "data", T |-> T, res |-> None, deref |-> FALSE,
          freed |-> <<>>]

MaxReads == 2      \* accessor calls made on one poll result

\* An accessor call on the Property a poll returned.  mpv_free_node_contents
\* leaves the node it released empty.
Property_data_Call(T) ==
    /\ phase = "returned"
    /\ call.fn = "wait_event"
    /\ ret.kind \in {"GetPropertyReply", "PropertyChange"}
    /\ T \in Types(call.crate)
    /\ Len(trace) < MaxReads
    /\ LET r == Property_data(T, staged.data)
       IN /\ trace' = Append(trace, [acc |-> r.acc, T |-> r.T, res |-> r.res,
                                     deref |-> r.deref])
          /\ released' = released \o r.freed
          /\ staged' = IF T = "Node" /\ r.deref
                       THEN [staged EXCEPT !.data.data.cell =
                                MpvNode(MPV_FORMAT_NONE, WZero)]
                       ELSE staged
    /\ UNCHANGED <<phase, ip, call, live, leaked, cbCalls, cbResult, native,
                   ret, ncalls>>
    /\ UNCHANGED session

\* A Hook::id that keeps only the low two bits.
Hook_id_truncated(hook) == hook.id % 4

\* Hook::id and Hook::name.
Hook_id(hook) == hook.id
Hook_name(hook) ==
    LET str == CStr_to_str(CStr_from_ptr(hook.name.bytes))
    IN IF str.ok THEN str.text ELSE "unknown"

\* StartFile::playlist_entry_id.
StartFile_playlist_entry_id(start) == start.playlist_entry_id

\* Some argument of the message is not valid UTF-8.
InvalidArg(msg) ==
    \E i \in 1..msg.num_args :
        ~CStr_to_str(CStr_from_ptr(msg.args[i].bytes)).ok

\* ClientMessage::args: to_str().unwrap() on every argument.
ClientMessage_args(msg) ==
    IF InvalidArg(msg) THEN Panic
    ELSE [i \in 1..msg.num_args |->
             CStr_to_str(CStr_from_ptr(msg.args[i].bytes)).text]

\* The accessors of each payload wrapper other than Property.
Accessors(kind) ==
    CASE kind = "Hook" -> {"id", "name"}
      [] kind = "StartFile" -> {"playlist_entry_id"}
      [] kind = "ClientMessage" -> {"args"}
      [] OTHER -> {}

Accessor(acc, payload) ==
    CASE acc = "id" -> Hook_id(payload)
      [] acc = "name" -> Hook_name(payload)
      [] acc = "playlist_entry_id" -> StartFile_playlist_entry_id(payload)
      [] acc = "args" -> ClientMessage_args(payload)

\* An accessor call on the Hook, StartFile or ClientMessage a poll returned.
Accessor_Call(acc) ==
    /\ phase = "returned"
    /\ call.fn = "wait_event"
    /\ acc \in Accessors(ret.kind)
    /\ Len(trace) < MaxReads
    /\ trace' = Append(trace, [acc |-> acc, res |-> Accessor(acc, staged.data)])
    /\ phase' = IF acc = "args" /\ InvalidArg(staged.data) THEN "panicked"
                ELSE phase
    /\ UNCHANGED <<ip, call, staged, live, leaked, released, cbCalls,
                   cbResult, native, ret, ncalls>>
    /\ UNCHANGED session

NextEvent ==
    \/ WaitEvent
    \/ WaitNoEvent
    \/ \E T \in {"String", "bool", "i64", "f64", "Node"} : Property_data_Call(T)
    \/ \E acc \in {"id", "name", "playlist_entry_id", "args"} :
          Accessor_Call(acc)
    \/ CommandAsync
    \/ HookContinue
    \/ Forget

SpecEvent == Init /\ [][NextEvent]_vars

(***************************************************************************)
(* Threads polling contexts.  The native library keeps one event record    *)
(* per context; mpv_wait_event overwrites it and the payload it points to, *)
(* and the wrappers returned to the caller point into it.                  *)
(***************************************************************************)
MaxPolls == 2      \* polls made on one context

calls == <<phase, ip, call, staged, live, leaked, released, cbCalls, cbResult,
           native, trace, ret, ncalls>>

NoRead == [of |-> 0, latest |-> 0, saw |-> 0]

\* Event<'a> and its payload wrappers carry the lifetime of the borrow of
\* the handle in the root crate only.
EventBorrows(crate) == crate = "root"

\* wait_event takes &mut self in mpv_client and &self in the root crate.
WaitEventExclusive(crate) == crate = "mpv_client"

\* The borrow checker rejects a poll while an event of an earlier poll is
\* held only when the event borrows the handle and the poll needs it whole.
HeldEventBlocksPoll(crate) == EventBorrows(crate) /\ WaitEventExclusive(crate)

\* The contexts a thread can call Handle's methods on: those of the Clients
\* it owns, through Deref, and those it holds a Handle::from_ptr wrapper of.
Reach(t) == threads[t].clients \cup threads[t].handles

\* Handle::from_ptr: a safe function that wraps any context pointer, wrapped
\* already or not; the wrapper is not tied to the Client that owns the
\* context.
Handle_from_ptr(t, c) ==
    /\ threads[t].pc = "idle"
    /\ contexts[c].created
    /\ c \notin threads[t].handles
    /\ threads' = [threads EXCEPT ![t].handles = @ \cup {c}]
    /\ UNCHANGED contexts
    /\ UNCHANGED calls

\* Handle::wait_event up to the native call: mpv_wait_event replaces the
\* context's event record.
wait_event_Enter(t, c) ==
    /\ threads[t].pc = "idle"
    /\ c \in Reach(t)
    /\ contexts[c].polls < MaxPolls
    /\ \E crate \in Crates :
          threads[t].event = NoEvent \/ ~HeldEventBlocksPoll(crate)
    /\ contexts' = [contexts EXCEPT ![c].polls = @ + 1]
    /\ threads' = [threads EXCEPT ![t].pc = "wait_event", ![t].ctx = c,
                                  ![t].mine = contexts[c].polls + 1]
    /\ UNCHANGED calls

\* Handle::wait_event from the native return: Event::from_ptr decodes the
\* record as it is now; with another poll of the context in between it is
\* that poll's record or its own.  The caller keeps the new event or goes on
\* holding the one it had.
wait_event_Return(t) ==
    /\ threads[t].pc = "wait_event"
    /\ \E got \in threads[t].mine .. contexts[threads[t].ctx].polls :
       \E keep \in {k \in BOOLEAN : k => threads[t].event # NoEvent} :
          threads' = [threads EXCEPT
                        ![t].pc = "idle", ![t].ctx = "none", ![t].mine = 0,
                        ![t].event = IF keep THEN @
                                     ELSE [ctx |-> threads[t].ctx,
                                           poll |-> got],
                        ![t].read = IF keep THEN @ ELSE NoRead]
    /\ UNCHANGED contexts
    /\ UNCHANGED calls

\* An accessor of a held payload wrapper (name, data, args, id,
\* playlist_entry_id) reads through the wrapper's pointer: the record of the
\* wrapper's poll, or what a later poll of the context left there.
Wrapper_read(t) ==
    /\ threads[t].pc = "idle"
    /\ threads[t].event # NoEvent
    /\ LET e == threads[t].event
       IN \E saw \in e.poll .. contexts[e.ctx].polls :
             threads' = [threads EXCEPT
                           ![t].read = [of |-> e.poll,
                                        latest |-> contexts[e.ctx].polls,
                                        saw |-> saw]]
    /\ UNCHANGED contexts
    /\ UNCHANGED calls

\* The caller lets go of the event it holds.
Event_drop(t) ==
    /\ threads[t].pc = "idle"
    /\ threads[t].event # NoEvent
    /\ threads' = [threads EXCEPT ![t].event = NoEvent, ![t].read = NoRead]
    /\ UNCHANGED contexts
    /\ UNCHANGED calls

NextThreads ==
    \/ \E t \in Threads : \E c \in Contexts : Handle_from_ptr(t, c)
    \/ \E t \in Threads : \E c \in Contexts : wait_event_Enter(t, c)
    \/ \E t \in Threads : wait_event_Return(t)
    \/ \E t \in Threads : Wrapper_read(t)
    \/ \E t \in Threads : Event_drop(t)

SpecThreads == Init /\ [][NextThreads]_vars

(***************************************************************************)
(* The life of a Client: made by Client::new or create_client, destroyed   *)
(* when it is dropped.                                                     *)
(***************************************************************************)
\* Drop for Client: mpv_destroy on the pointer the Client holds.
Client_dropped(t, c) ==
    /\ threads' = [threads EXCEPT ![t].clients = @ \ {c}]
    /\ contexts' = [contexts EXCEPT ![c].drops = @ + 1,
                                    ![c].destroys = @ + 1]

\* A Client goes out of scope.
Client_drop(t, c) ==
    /\ threads[t].pc = "idle"
    /\ c \in threads[t].clients
    /\ Client_dropped(t, c)
    /\ UNCHANGED calls

\* Client::initialize.  In mpv_client it takes the Client by value and
\* returns it only when mpv_initialize succeeded: on an error the Client is
\* dropped.  In the root crate it borrows the Client.
Client_initialize(t, c) ==
    /\ threads[t].pc = "idle"
    /\ c \in threads[t].clients
    /\ \E crate \in Crates :
       \E rc \in {MPV_ERROR_SUCCESS, MPV_ERROR_NOMEM} :
          IF result(rc).tag = "Ok"
          THEN /\ contexts' = [contexts EXCEPT ![c].initialized = TRUE]
               /\ UNCHANGED threads
          ELSE IF crate = "mpv_client" THEN Client_dropped(t, c)
          ELSE UNCHANGED <<threads, contexts>>
    /\ UNCHANGED calls

\* Handle::initialize through a wrapper made by Handle::from_ptr, as every
\* method of Handle a call on the wrapped pointer; `after` records that the
\* context had been destroyed by then.
Handle_initialize(t, c) ==
    /\ threads[t].pc = "idle"
    /\ c \in threads[t].handles
    /\ \E rc \in {MPV_ERROR_SUCCESS, MPV_ERROR_NOMEM} :
          contexts' = [contexts EXCEPT
                         ![c].initialized = @ \/ result(rc).tag = "Ok",
                         ![c].after = @ \/ contexts[c].destroys > 0]
    /\ UNCHANGED threads
    /\ UNCHANGED calls

\* Handle::create_client and create_weak_client on a context the thread
\* reaches, when the native call returns a new context: the caller gets a
\* Client that owns it.
Handle_create_client(t, p, c) ==
    /\ threads[t].pc = "idle"
    /\ p \in Reach(t)
    /\ ~contexts[c].created
    /\ contexts' = [contexts EXCEPT ![c].created = TRUE, ![c].parent = p]
    /\ threads' = [threads EXCEPT ![t].clients = @ \cup {c}]
    /\ UNCHANGED calls

NextClient ==
    \/ \E t \in Threads : \E c \in Contexts : Handle_from_ptr(t, c)
    \/ \E t \in Threads : \E p, c \in Contexts : Handle_create_client(t, p, c)
    \/ \E t \in Threads : \E c \in Contexts : Client_initialize(t, c)
    \/ \E t \in Threads : \E c \in Contexts : Handle_initialize(t, c)
    \/ \E t \in Threads : \E c \in Contexts : Client_drop(t, c)

SpecClient == Init /\ [][NextClient]_vars

(***************************************************************************)
(* Observed properties.  A context keeps the observations made on it as    *)
(* pairs of the caller's id and the property name.                         *)
(***************************************************************************)
\* The native mpv_observe_property: a successful call adds the observation.
mpv_observe_property(observed, e) ==
    IF e.rc >= 0 THEN observed \cup {<<e.reply, e.name>>} ELSE observed

\* The native mpv_unobserve_property: a successful call removes every
\* observation made with the id and returns how many there were.
mpv_unobserve_property(observed, e) ==
    IF e.rc >= 0 THEN {o \in observed : o[1] # e.id} ELSE observed

\* The observations of a context after the native calls of one facade call.
RECURSIVE Observed(_, _)
Observed(observed, log) ==
    IF log = <<>> THEN observed
    ELSE LET e == Head(log)
             now == CASE e.fn = "mpv_observe_property" ->
                            mpv_observe_property(observed, e)
                      [] e.fn = "mpv_unobserve_property" ->
                            mpv_unobserve_property(observed, e)
                      [] OTHER -> observed
         IN Observed(now, Tail(log))

\* A facade call on context c whose observations are followed.
ObservingCall(c, callRec, out) ==
    /\ AtomicCall(callRec @@ [ctx |-> c], out)
    /\ contexts' = [contexts EXCEPT ![c].observed = Observed(@, out.native)]
    /\ UNCHANGED threads

\* The format argument of observe_property when the property is to be read
\* as a T: T::MPV_FORMAT in mpv_client, where the call is generic in T; any
\* i32 the caller writes in the root crate, where format is a parameter.
ObserveFormats(crate, T) ==
    IF crate = "root" THEN {MPV_FORMAT(T), MPV_FORMAT_NONE, MPV_FORMAT_NODE}
    ELSE {MPV_FORMAT(T)}

ObservePropertyOn(c) ==
    \E crate \in Crates : \E T \in Types(crate) : \E reply \in Ids :
      \E name \in Names : \E rc \in NativeCodes(crate) :
        \E format \in ObserveFormats(crate, T) :
          ObservingCall(c, [fn |-> "observe_property", crate |-> crate,
                            T |-> T, format |-> format, reply |-> reply,
                            name |-> name],
                        observe_property(reply, name, format, rc))

UnobservePropertyOn(c) ==
    \E crate \in Crates : \E id \in Ids : \E rc \in NativeCodes(crate) :
        ObservingCall(c, [fn |-> "unobserve_property", crate |-> crate,
                          id |-> id],
                      unobserve_property(id, rc))

NextObserve ==
    \/ \E c \in Contexts : contexts[c].created /\ ObservePropertyOn(c)
    \/ \E c \in Contexts : contexts[c].created /\ UnobservePropertyOn(c)
    \/ Forget

SpecObserve == Init /\ [][NextObserve]_vars

(***************************************************************************)
(* Properties of set_property and to_mpv.                                  *)
(***************************************************************************)
IsSetProperty(T) == call.fn = "set_property" /\ call.T = T

NoDuplicates(s) == \A i, j \in 1..Len(s) : s[i] = s[j] => i = j

RECURSIVE ContainsNul(_)
ContainsNul(v) ==
    CASE v.kind = "String" -> HasNul(v.val)
      [] v.kind = "Array" -> \E i \in 1..Len(v.val) : ContainsNul(v.val[i])
      [] v.kind = "Map" ->
            \E k \in DOMAIN v.val : HasNul(k) \/ ContainsNul(v.val[k])
      [] OTHER -> FALSE

\* C2: when a set_property call with a Node value has returned, on success
\* or on failure of the native call, nothing the encode allocated is still
\* outstanding, from this call or an earlier one, and nothing was released
\* twice or released without having been allocated.
C2_NoLeakNoDoubleFree ==
    (phase = "returned" /\ IsSetProperty("Node")) =>
        /\ live = {}
        /\ leaked = 0
        /\ NoDuplicates(released)
        /\ WildAddr \notin Range(released)

\* C3: Node::to_mpv calls `fun` once, with the encoded node; nothing is
\* released before `fun` has returned; the release step runs whatever `fun`
\* returned; to_mpv returns what `fun` returned.
C3_ReleaseAfterCallback ==
    IsSetProperty("Node") =>
        /\ cbCalls <= 1
        /\ phase = "in_fun" =>
              /\ trace = <<"stage", "fun">>
              /\ released = <<>>
              /\ to_mpv_node(call.data, <<>>, call.env).allocs \subseteq live
              /\ native[1].data = to_mpv_node(call.data, <<>>, call.env).ptr
        /\ "release" \in Range(trace) => cbCalls = 1 /\ cbResult # Pending
        /\ (phase = "returned" /\ ~HasNul(call.name)) =>
              /\ cbCalls = 1
              /\ trace = <<"stage", "fun", "release">>
              /\ cbResult # Pending
              /\ ret = cbResult

C3_Witness ==
    /\ phase = "returned"
    /\ IsSetProperty("Node")
    /\ call.data = NString(TextX)
    /\ ret = Err(MPV_ERROR_PROPERTY_NOT_FOUND)
    /\ released = << <<<<>>, "cstr">> >>

\* C8: String::to_mpv stages the n bytes of the text followed by one zero
\* byte, n+1 bytes in all, before `fun` is called; `fun` is called once,
\* with the address of a pointer to that buffer; the buffer is released only
\* after `fun` has returned.
C8_StringStaged ==
    IsSetProperty("String") =>
        /\ cbCalls <= 1
        /\ phase = "in_fun" =>
              /\ ~HasNul(call.data)
              /\ trace = <<"stage", "fun">>
              /\ cbCalls = 1
              /\ native[1].data = staged
              /\ staged.w = "ptr"
              /\ Len(staged.obj.bytes) = Len(call.data) + 1
              /\ SubSeq(staged.obj.bytes, 1, Len(call.data)) = call.data
              /\ staged.obj.bytes[Len(call.data) + 1] = NUL
              /\ staged.obj.addr \in live
        /\ BufAddr \in Range(released) => cbCalls = 1 /\ cbResult # Pending
        /\ (phase = "returned" /\ ~HasNul(call.name) /\ ~HasNul(call.data)) =>
              cbCalls = 1

C8_Witness ==
    /\ phase = "in_fun"
    /\ IsSetProperty("String")
    /\ call.data = Hello
    /\ Len(staged.obj.bytes) = 6

\* C10: set_property with a Node value in which a String or a Map key
\* contains a zero byte returns Err(-20) and leaves nothing allocated; it
\* does not panic.
C10_NulInNodeIsGenericError ==
    (/\ IsSetProperty("Node")
     /\ ~HasNul(call.name)
     /\ ContainsNul(call.data)
     /\ phase \in {"returned", "panicked"}) =>
        /\ phase = "returned"
        /\ ret = Err(MPV_ERROR_GENERIC)
        /\ live = {}

FacadeFns ==
    {"command", "command_async", "set_property", "get_property",
     "observe_property", "unobserve_property", "hook_add", "hook_continue",
     "initialize"}

\* The code the native call of the current facade call returned.
NativeRc == native[Len(native)].rc

FacadeReturned ==
    phase = "returned" /\ call.fn \in FacadeFns /\ native # <<>>

\* get_property::<String> whose native call succeeded and wrote text that
\* is not valid UTF-8.
InvalidTextRead ==
    /\ call.fn = "get_property"
    /\ call.T = "String"
    /\ NativeRc = MPV_ERROR_SUCCESS
    /\ ~IsUtf8(CStr_from_ptr(native[Len(native)].wrote.obj.bytes))

ErrorOfCode(c) ==
    /\ ret = Err(c)
    /\ Error_description(ret) = mpv_error_string(c)
    /\ Len(Error_description(ret)) > 0

C9_NulInArgumentIsGenericError ==
    (/\ call.fn \in {"command", "command_async"}
     /\ \E i \in 1..Len(call.args) : HasNul(call.args[i])
     /\ phase \in {"returned", "panicked"}) =>
        /\ phase = "returned"
        /\ ret = Err(MPV_ERROR_GENERIC)
        /\ native = <<>>

\* C5: an event record whose discriminant Event::from_ptr has no arm for
\* decodes to Event::None, whatever its error code, reply id and payload
\* pointer; decoding does not abort.
C5_UnknownEventIsNone ==
    (/\ call.fn = "wait_event"
     /\ call.event.event_id \notin HandledEventIds
     /\ phase \in {"returned", "panicked"}) =>
        /\ phase = "returned"
        /\ ret = EvNone

RECURSIVE ValidText(_)
\* No text inside the value is invalid UTF-8.
ValidText(v) ==
    CASE v.kind = "String" -> IsUtf8(v.val)
      [] v.kind = "Array" -> \A i \in 1..Len(v.val) : ValidText(v.val[i])
      [] v.kind = "Map" ->
            \A k \in DOMAIN v.val : IsUtf8(k) /\ ValidText(v.val[k])
      [] OTHER -> TRUE

\* What a read of type T should return for a stored value.
StoredAs(T, v) == IF T = "Node" THEN v ELSE v.val

\* The payload is as the native side delivered it when read i is made.
Untouched(i) == \A j \in 1..(i - 1) : ~(trace[j].T = "Node" /\ trace[j].deref)

\* C7: Property::data::<T>() on a payload whose format differs from T's
\* returns None without reading through the data pointer and without
\* panicking; when the formats agree and the payload holds valid data, it
\* returns Some of the value stored in the payload.
C7_DataChecksFormat ==
    (/\ call.fn = "wait_event"
     /\ ret.kind \in {"GetPropertyReply", "PropertyChange"}
     /\ trace # <<>>) =>
        /\ phase = "returned"
        /\ \A i \in 1..Len(trace) :
              LET r == trace[i]
                  prop == call.event.data
              IN /\ prop.format # MPV_FORMAT(r.T) =>
                        r.res = None /\ ~r.deref
                 /\ (/\ prop.format = MPV_FORMAT(r.T)
                     /\ ValidText(call.stored.value)
                     /\ Untouched(i)) =>
                        r.res = Some(StoredAs(r.T, call.stored.value))

C7_Witness ==
    /\ phase = "returned"
    /\ call.fn = "wait_event"
    /\ Len(trace) = 2
    /\ call.event.data.format = MPV_FORMAT_INT64
    /\ trace[1] = [acc |-> "data", T |-> "bool", res |-> None, deref |-> FALSE]
    /\ trace[2] = [acc |-> "data", T |-> "i64", res |-> Some(7), deref |-> TRUE]

\* The native call of get_property succeeded and wrote text that is not
\* valid UTF-8, as a string or inside a node.
WroteInvalidText ==
    /\ call.fn = "get_property"
    /\ native # <<>>
    /\ NativeRc = MPV_ERROR_SUCCESS
    /\ LET wrote == native[Len(native)].wrote
       IN CASE call.T = "String" -> ~IsUtf8(CStr_from_ptr(wrote.obj.bytes))
            [] call.T = "Node" ->
                  \E v \in NativeValues :
                      ~ValidText(v) /\ wrote = native_node(v, NativeRoot)
            [] OTHER -> FALSE

\* C11: a read of native text that is not valid UTF-8 returns Err(-20); it
\* neither returns an altered value nor panics.
C11_InvalidTextIsGenericError ==
    (WroteInvalidText /\ phase \in {"returned", "panicked"}) =>
        /\ phase = "returned"
        /\ ret = Err(MPV_ERROR_GENERIC)

ReplyKind(id) ==
    CASE id = MPV_EVENT_GET_PROPERTY_REPLY -> "GetPropertyReply"
      [] id = MPV_EVENT_SET_PROPERTY_REPLY -> "SetPropertyReply"
      [] id = MPV_EVENT_COMMAND_REPLY -> "CommandReply"

\* C12: a get-property, set-property or command reply record with a
\* non-zero error code decodes to the reply event of its kind, carrying
\* Err(code) and the record's reply id, whatever its payload pointer is.
C12_FailedReplyDecodes ==
    (/\ call.fn = "wait_event"
     /\ call.event.event_id \in {MPV_EVENT_GET_PROPERTY_REPLY,
                                 MPV_EVENT_SET_PROPERTY_REPLY,
                                 MPV_EVENT_COMMAND_REPLY}
     /\ call.event.error # MPV_ERROR_SUCCESS
     /\ phase \in {"returned", "panicked"}) =>
        /\ phase = "returned"
        /\ ret.kind = ReplyKind(call.event.event_id)
        /\ ret.res = Err(call.event.error)
        /\ ret.id = call.event.reply_userdata

\* C15: command_async returns an error exactly when the native call
\* returned a negative code; 0 and positive codes are success.
C15_PositiveCodeIsSuccess ==
    (phase = "returned" /\ call.fn = "command_async" /\ native # <<>>) =>
        (ret.tag = "Err" <=> NativeRc < 0)

\* C16: Client::new, create_client and create_weak_client return
\* Err(NOMEM) when the native call returns a null context, never a Client
\* around a null pointer, and do not panic; a name with a zero byte gives
\* Err(-20) and no native call.
C16_NullContextIsNoMemory ==
    (/\ call.fn \in {"Client_new", "create_client", "create_weak_client"}
     /\ phase \in {"returned", "panicked"}) =>
        /\ phase = "returned"
        /\ IF call.fn # "Client_new" /\ HasNul(call.name)
           THEN ret = Err(MPV_ERROR_GENERIC) /\ native = <<>>
           ELSE IF IsNull(call.handle) THEN ret = Err(MPV_ERROR_NOMEM)
           ELSE ret \in {Ok(Client(call.handle)), Client(call.handle)}

\* The event kinds that carry a reply id.
CarriesId ==
    {MPV_EVENT_GET_PROPERTY_REPLY, MPV_EVENT_SET_PROPERTY_REPLY,
     MPV_EVENT_COMMAND_REPLY, MPV_EVENT_PROPERTY_CHANGE, MPV_EVENT_HOOK}

\* C18: the id of a decoded get-property reply, set-property reply, command
\* reply, property change or hook event is the record's reply_userdata, and
\* command_async passes the caller's reply id to the native call; so a reply
\* the native side sends back under that id arrives with that id.
C18_ReplyIdUnchanged ==
    /\ (/\ call.fn = "wait_event"
        /\ phase = "returned"
        /\ call.event.event_id \in CarriesId) =>
           ret.id = call.event.reply_userdata
    /\ (call.fn = "command_async" /\ phase = "returned" /\ native # <<>>) =>
           native[1].reply = call.reply

C18_Witness ==
    /\ call.fn = "wait_event"
    /\ phase = "returned"
    /\ call.event.event_id = MPV_EVENT_COMMAND_REPLY
    /\ call.event.reply_userdata = 7
    /\ ret = [kind |-> "CommandReply", res |-> Ok(Unit), id |-> 7]

C19_ArgumentArray ==
    (/\ call.fn \in {"command", "command_async"}
     /\ phase = "returned"
     /\ \A i \in 1..Len(call.args) : ~HasNul(call.args[i])) =>
        /\ Len(native) = 1
        /\ LET n == Len(call.args)
               a == native[1].args
           IN /\ Len(a) = n + 1
              /\ IsNull(a[n + 1])
              /\ \A i \in 1..n :
                    /\ ~IsNull(a[i])
                    /\ a[i].bytes = Append(call.args[i], NUL)
                    /\ a[i].addr \in native[1].alive
              /\ \A i, j \in 1..n : a[i].addr = a[j].addr => i = j

C19_Witness ==
    /\ call.fn = "command_async"
    /\ phase = "returned"
    /\ call.args = <<TextX, Hello>>
    /\ Len(native[1].args) = 3
    /\ ret = Ok(Unit)

\* C24: when the marshalling callback handed to from_mpv returns an error,
\* from_mpv returns that error and no value, the callback was invoked once,
\* and nothing was released: for String, bool, i64, f64 and Node.
C24_CallbackErrorReturned ==
    (/\ call.fn = "get_property"
     /\ phase \in {"returned", "panicked"}
     /\ cbResult.tag = "Err") =>
        /\ phase = "returned"
        /\ ret = cbResult
        /\ cbCalls = 1
        /\ released = <<>>

\* get_property::<String> whose native call found no such property.
C24_Witness ==
    /\ call.fn = "get_property"
    /\ phase = "returned"
    /\ call.T = "String"
    /\ cbCalls = 1
    /\ cbResult = Err(MPV_ERROR_PROPERTY_NOT_FOUND)
    /\ ret = Err(MPV_ERROR_PROPERTY_NOT_FOUND)
    /\ released = <<>>

\* C25: the format tag that set_property, get_property and observe_property
\* hand the native call is the tag of the type the caller stages, reads or
\* observes the property as; the tags of String, bool, i64, f64 and Node
\* differ from each other; no call sends a type's data under another tag.
C25_TagOfType ==
    /\ \A T1, T2 \in Types("mpv_client") :
          MPV_FORMAT(T1) = MPV_FORMAT(T2) => T1 = T2
    /\ (/\ call.fn \in {"set_property", "get_property", "observe_property"}
        /\ phase = "returned") =>
           \A i \in 1..Len(native) : native[i].format = MPV_FORMAT(call.T)

\* C27: within one poll result, Property::data::<T>() called again on the
\* same payload returns what it returned before, the event record is as the
\* native side delivered it, and nothing of the payload was released.
C27_DataReadsLeaveRecord ==
    (/\ call.fn = "wait_event"
     /\ phase \in {"returned", "panicked"}
     /\ ret.kind \in {"GetPropertyReply", "PropertyChange"}) =>
        /\ phase = "returned"
        /\ staged = call.event
        /\ released = <<>>
        /\ \A i, j \in 1..Len(trace) :
              (/\ trace[i].acc = "data"
               /\ trace[j].acc = "data"
               /\ trace[i].T = trace[j].T) => trace[i].res = trace[j].res

\* C29: String::from_mpv, when the callback succeeded, copies the text the
\* native side returned and then releases that buffer with mpv_free, once:
\* the result is the text when it is valid UTF-8 and the generic error when
\* it is not, and the buffer is released once either way.
C29_StringBufferReleasedOnce ==
    (/\ call.fn = "get_property"
     /\ call.T = "String"
     /\ phase \in {"returned", "panicked"}
     /\ cbResult = Ok(Unit)) =>
        LET buf == native[1].wrote.obj
            text == CStr_from_ptr(buf.bytes)
        IN /\ phase = "returned"
           /\ released = <<buf.addr>>
           /\ ret = IF IsUtf8(text) THEN Ok(text) ELSE Err(MPV_ERROR_GENERIC)

\* get_property::<String> on text that is not UTF-8: the generic error, and
\* the buffer released.
C29_Witness ==
    /\ call.fn = "get_property"
    /\ call.T = "String"
    /\ phase = "returned"
    /\ cbResult = Ok(Unit)
    /\ native[1].wrote.obj.bytes = Append(TextInvalid, NUL)
    /\ ret = Err(MPV_ERROR_GENERIC)
    /\ released = <<native[1].wrote.obj.addr>>

\* The call has text with a zero byte where a C string is made of it: the
\* name, or the String value of set_property.
NulInText ==
    \/ HasNul(call.name)
    \/ /\ call.fn = "set_property"
       /\ call.T = "String"
       /\ HasNul(call.data)

\* C30: set_property, get_property, observe_property and hook_add given a
\* name with a zero byte, and set_property given a String value with a zero
\* byte, return the generic error (-20); the marshalling callback is not
\* invoked and no native call is made.
C30_NulTextIsGenericError ==
    (/\ call.fn \in {"set_property", "get_property", "observe_property",
                     "hook_add"}
     /\ phase \in {"returned", "panicked"}
     /\ NulInText) =>
        /\ phase = "returned"
        /\ ret = Err(MPV_ERROR_GENERIC)
        /\ cbCalls = 0
        /\ native = <<>>

\* set_property of a String value with a zero byte under a name without
\* one: refused with the generic error before the native call.
C30_Witness ==
    /\ call.fn = "set_property"
    /\ call.T = "String"
    /\ phase = "returned"
    /\ ~HasNul(call.name)
    /\ HasNul(call.data)
    /\ ret = Err(MPV_ERROR_GENERIC)
    /\ cbCalls = 0
    /\ native = <<>>

\* C21: a poll that finds no event returns Event::None and does not fault,
\* whether the native side answers with a record of kind none or with a
\* null record pointer.
C21_NoEventIsNone ==
    (/\ call.fn = "wait_event"
     /\ IsNull(call.event) \/ call.event.event_id = MPV_EVENT_NONE
     /\ phase \in {"returned", "panicked"}) =>
        /\ phase = "returned"
        /\ ret = EvNone

(***************************************************************************)
(* Properties of polling threads.                                          *)
(***************************************************************************)
Polling(t, c) == threads[t].pc = "wait_event" /\ threads[t].ctx = c

\* C13: no two threads are inside wait_event on the same context at the same
\* time, whatever wrappers they reached the context through; polls of
\* different contexts may overlap.
C13_OnePollPerContext ==
    \A c \in Contexts : \A t1, t2 \in Threads :
        Polling(t1, c) /\ Polling(t2, c) => t1 = t2

\* C14: an accessor of a payload wrapper reads the record of the latest poll
\* of its context: the wrapper is never read once the context was polled
\* again.
C14_WrapperReadIsLatestPoll ==
    \A t \in Threads :
        threads[t].read # NoRead =>
            /\ threads[t].read.of = threads[t].read.latest
            /\ threads[t].read.saw = threads[t].read.latest

\* C26: the native destroy call is made on a Client's context once, when
\* the Client is dropped (so also when mpv_client's initialize fails), and
\* on no other context: not on the parent of a dropped child; a context
\* has an owning Client until then; no call of the facade is made on a
\* context after its destroy.
C26_DestroyedOnceAtDrop ==
    /\ \A c \in Contexts :
          /\ contexts[c].destroys = contexts[c].drops
          /\ contexts[c].destroys <= 1
          /\ (contexts[c].created /\ contexts[c].drops = 0) <=>
                (\E t \in Threads : c \in threads[t].clients)
          /\ ~contexts[c].after

(***************************************************************************)
(* Properties of observe_property and unobserve_property.                  *)
(***************************************************************************)
ObserveReturns(fn) ==
    phase = "idle" /\ phase' = "returned" /\ call'.fn = fn

\* C17: unobserve_property(id) hands the native cancel call exactly id, so
\* that after it no observation made with another id is gone and, when the
\* native call succeeded, none made with id is left; observe_property hands
\* over the caller's id and name, issues no cancel call and removes no
\* observation; neither touches another context.
C17_UnobserveCancelsOnlyItsId ==
    [][ /\ ObserveReturns("unobserve_property") =>
            /\ Len(native') = 1
            /\ native'[1].fn = "mpv_unobserve_property"
            /\ native'[1].id = call'.id
            /\ \A o \in contexts[call'.ctx].observed :
                  o[1] # call'.id => o \in contexts'[call'.ctx].observed
            /\ native'[1].rc >= 0 =>
                  \A o \in contexts'[call'.ctx].observed : o[1] # call'.id
            /\ \A d \in Contexts \ {call'.ctx} : contexts'[d] = contexts[d]
        /\ ObserveReturns("observe_property") =>
            /\ contexts[call'.ctx].observed \subseteq
                  contexts'[call'.ctx].observed
            /\ \A i \in 1..Len(native') :
                  /\ native'[i].fn = "mpv_observe_property"
                  /\ native'[i].reply = call'.reply
                  /\ native'[i].name = CString_new(call'.name).bytes
            /\ \A d \in Contexts \ {call'.ctx} : contexts'[d] = contexts[d]
      ]_vars

\* unobserve_property(7) succeeded on a context that goes on observing a
\* property under id 0.
C17_Witness ==
    /\ phase = "returned"
    /\ call.fn = "unobserve_property"
    /\ call.id = 7
    /\ ret = Ok(Unit)
    /\ contexts[call.ctx].observed = {<<0, CString_new(NamePause).bytes>>}

(***************************************************************************)
(* The bridge on its own: to_mpv_node, then from_mpv_node on its result.   *)
(***************************************************************************)
to_mpv_node_Call(v, env) ==
    /\ CanCall
    /\ ncalls < MaxCalls
    /\ Fresh
    /\ ncalls' = ncalls + 1
    /\ call' = [fn |-> "to_mpv_node", data |-> v, env |-> env]
    /\ native' = <<>>
    /\ ip' = 0
    /\ ret' = Pending
    /\ LET r == to_mpv_node(v, <<>>, env)
       IN /\ live' = r.allocs
          /\ staged' = r.ptr
          /\ phase' = IF r.ok THEN "running" ELSE "panicked"
    /\ UNCHANGED session

from_mpv_node_Call ==
    /\ phase = "running"
    /\ call.fn = "to_mpv_node"
    /\ ret' = Ok(from_mpv_node(staged, call.env))
    /\ phase' = "returned"
    /\ UNCHANGED <<ip, call, staged, live, leaked, released, cbCalls, cbResult,
                   native, trace, ncalls>>
    /\ UNCHANGED session

NextBridge ==
    \/ \E v \in Values : \E env \in EnvsFor("Node", v) : to_mpv_node_Call(v, env)
    \/ from_mpv_node_Call
    \/ Forget

SpecBridge == Init /\ [][NextBridge]_vars

(***************************************************************************)
(* Display for Error.                                                      *)
(***************************************************************************)
MaxDepth == 4      \* calls of fmt the stack has room for

\* write!(f, "[{}] {}", code, description).
Formatted(code, description) == <<"[", code, "] ", description>>

\* What fmt puts after the code: in mpv_client the text mpv_error_string
\* returns; in the root crate self.to_string(), which is fmt again.
Display_argument(crate) ==
    IF crate = "root" THEN "to_string" ELSE "mpv_error_string"

\* The outermost call of <Error as Display>::fmt.
Display_fmt_Begin(crate, code) ==
    /\ CanCall
    /\ call' = [fn |-> "fmt", crate |-> crate, code |-> code]
    /\ ip' = 1
    /\ phase' = "running"
    /\ UNCHANGED <<staged, live, leaked, released, cbCalls, cbResult, native,
                   trace, ret, ncalls>>
    /\ UNCHANGED session

\* The innermost call of fmt evaluates its arguments: it writes the text
\* and every call returns, or it calls fmt once more; without room on the
\* stack for that the program is aborted.
Display_fmt_Step ==
    /\ phase = "running"
    /\ call.fn = "fmt"
    /\ IF Display_argument(call.crate) = "mpv_error_string"
       THEN /\ ret' = Ok(Formatted(call.code, mpv_error_string(call.code)))
            /\ phase' = "returned"
            /\ ip' = 0
       ELSE IF ip < MaxDepth
       THEN /\ ip' = ip + 1
            /\ UNCHANGED <<phase, ret>>
       ELSE /\ ret' = Panic
            /\ phase' = "panicked"
            /\ UNCHANGED ip
    /\ UNCHANGED <<call, staged, live, leaked, released, cbCalls, cbResult,
                   native, trace, ncalls>>
    /\ UNCHANGED session

NextDisplay ==
    \/ \E crate \in Crates : \E code \in NativeCodes(crate) :
          Display_fmt_Begin(crate, code)
    \/ Display_fmt_Step
    \/ Forget

SpecDisplay == Init /\ [][NextDisplay]_vars

\* C28: formatting an Error ends, with the text "[code] description", the
\* description being the one mpv_error_string gives for the code.
C28_DisplayEnds ==
    call.fn = "fmt" =>
        /\ phase # "panicked"
        /\ phase = "returned" =>
              ret = Ok(Formatted(call.code, mpv_error_string(call.code)))

(***************************************************************************)
(* from_mpv_node on records the native side made.                          *)
(***************************************************************************)
MaxTag == 10       \* largest format tag the native side is taken to send

\* The tags from_mpv_node has an arm for.
HandledTags ==
    {MPV_FORMAT_STRING, MPV_FORMAT_FLAG, MPV_FORMAT_INT64, MPV_FORMAT_DOUBLE,
     MPV_FORMAT_NODE_ARRAY, MPV_FORMAT_NODE_MAP, MPV_FORMAT_BYTE_ARRAY}
OtherTags == (0..MaxTag) \ HandledTags

\* A node with a tag outside HandledTags; its payload points nowhere.
OtherNode(tag) == MpvNode(tag, WPtr([addr |-> DanglingAddr]))

\* mpv_node_list records: an array, and a map whose key pointers may be
\* null.
NativeArray(elems, p) ==
    MpvNode(MPV_FORMAT_NODE_ARRAY,
        WPtr([addr |-> <<p, "list">>, num |-> Len(elems),
              values |-> ArrayObj(<<p, "values">>, "node", elems),
              keys |-> NULL]))
NativeMap(keys, elems, p) ==
    MpvNode(MPV_FORMAT_NODE_MAP,
        WPtr([addr |-> <<p, "list">>, num |-> Len(elems),
              values |-> ArrayObj(<<p, "values">>, "node", elems),
              keys |-> ArrayObj(<<p, "keys">>, "cstr", keys)]))
NativeKey(s, i) == [addr |-> <<<<0, i>>, "key">>, bytes |-> Append(s, NUL)]

\* The keys of a native map: null pointers, and texts that differ from each
\* other.
KeyLists(n) ==
    {[i \in 1..n |-> IF ks[i] = <<>> THEN NULL ELSE NativeKey(ks[i], i)] :
        ks \in {f \in [1..n -> {<<>>, KeyA, KeyB}] :
                    \A i, j \in 1..n :
                        f[i] = f[j] /\ f[i] # <<>> => i = j}}

RecordElems ==
    {native_node(NInt(1), <<0, 1>>), native_node(NString(TextX), <<0, 1>>)}
    \cup {OtherNode(tag) : tag \in OtherTags}
Records ==
    {OtherNode(tag) : tag \in OtherTags}
    \cup {NativeArray(es, NativeRoot) :
            es \in UNION {[1..n -> RecordElems] : n \in 0..MaxLen}}
    \cup UNION {{NativeMap(ks, es, NativeRoot) :
                    ks \in KeyLists(n), es \in [1..n -> RecordElems]} :
                n \in 0..MaxLen}
    \cup {NativeArray(<<NativeMap(<<NULL, NativeKey(KeyA, 2)>>,
                                  <<e, OtherNode(MPV_FORMAT_NONE)>>, <<0, 1>>)>>,
                      NativeRoot) : e \in RecordElems}

from_mpv_node_Decode(node) ==
    /\ CanCall
    /\ call' = [fn |-> "from_mpv_node", node |-> node]
    /\ staged' = node
    /\ ret' = Ok(from_mpv_node(node, Env0))
    /\ phase' = "returned"
    /\ UNCHANGED <<ip, live, leaked, released, cbCalls, cbResult, native,
                   trace, ncalls>>
    /\ UNCHANGED session

NextDecode ==
    \/ \E node \in Records : from_mpv_node_Decode(node)
    \/ Forget

SpecDecode == Init /\ [][NextDecode]_vars

\* The text a key pointer refers to, as from_mpv_node reads it.
KeyText(key) == to_string_lossy(CStr_from_ptr(key.bytes))

\* C22: a native map record decodes to a Map holding exactly the entries
\* whose key pointer is not null, the key at index i paired with the decoded
\* value at index i; entries with a null key are left out and decoding does
\* not fail.
C22_NullKeysDropped ==
    (/\ call.fn = "from_mpv_node"
     /\ phase \in {"returned", "panicked"}
     /\ call.node.format = MPV_FORMAT_NODE_MAP) =>
        LET list == call.node.u.obj
            kept == {i \in 1..list.num : ~IsNull(list.keys.cells[i])}
        IN /\ phase = "returned"
           /\ ret.tag = "Ok"
           /\ ret.val.kind = "Map"
           /\ DOMAIN ret.val.val = {KeyText(list.keys.cells[i]) : i \in kept}
           /\ \A i \in kept :
                 ret.val.val[KeyText(list.keys.cells[i])] =
                    from_mpv_node(list.values.cells[i], Env0)

\* A map of a null key followed by key "a" decoded to the one entry "a",
\* with the value stored second.
C22_Witness ==
    /\ call.fn = "from_mpv_node"
    /\ phase = "returned"
    /\ call.node =
          NativeMap(<<NULL, NativeKey(KeyA, 2)>>,
                    <<native_node(NString(TextX), <<0, 1>>),
                      native_node(NInt(1), <<0, 1>>)>>, NativeRoot)
    /\ ret = Ok(NMap(KeyA :> NInt(1)))

RECURSIVE OthersAreNone(_, _)
\* Wherever the record has a tag outside HandledTags, at the top or inside
\* an array or under a key of a map, the decoded value v has Node::None.
OthersAreNone(node, v) ==
    CASE node.format \notin HandledTags -> v = NNone
      [] node.format = MPV_FORMAT_NODE_ARRAY ->
            /\ v.kind = "Array"
            /\ Len(v.val) = node.u.obj.num
            /\ \A i \in 1..node.u.obj.num :
                  OthersAreNone(node.u.obj.values.cells[i], v.val[i])
      [] node.format = MPV_FORMAT_NODE_MAP ->
            /\ v.kind = "Map"
            /\ \A i \in 1..node.u.obj.num :
                  ~IsNull(node.u.obj.keys.cells[i]) =>
                     /\ KeyText(node.u.obj.keys.cells[i]) \in DOMAIN v.val
                     /\ OthersAreNone(node.u.obj.values.cells[i],
                                      v.val[KeyText(node.u.obj.keys.cells[i])])
      [] OTHER -> v.kind # "Wild"

\* C23: a native node whose tag from_mpv_node has no arm for decodes to
\* Node::None, its payload unread, and decoding does not fail: at the top
\* level and for an element inside an array or a map.
C23_OtherTagIsNone ==
    (call.fn = "from_mpv_node" /\ phase \in {"returned", "panicked"}) =>
        /\ phase = "returned"
        /\ ret.tag = "Ok"
        /\ OthersAreNone(call.node, ret.val)

\* An array inside which a map holds an element of tag 0 under key "a".
C23_Witness ==
    /\ call.fn = "from_mpv_node"
    /\ phase = "returned"
    /\ ret = Ok(NArray(<<NMap(KeyA :> NNone)>>))
    /\ call.node.u.obj.values.cells[1].u.obj.values.cells[2] =
          OtherNode(MPV_FORMAT_NONE)

RECURSIVE HasEmptyByteArray(_)
HasEmptyByteArray(v) ==
    CASE v.kind = "ByteArray" -> Len(v.val) = 0
      [] v.kind = "Array" -> \E i \in 1..Len(v.val) : HasEmptyByteArray(v.val[i])
      [] v.kind = "Map" -> \E k \in DOMAIN v.val : HasEmptyByteArray(v.val[k])
      [] OTHER -> FALSE

\* C1: decoding what to_mpv_node built for v gives back v, for every v
\* without an empty byte array.
C1_RoundTrip ==
    (/\ phase = "returned"
     /\ call.fn = "to_mpv_node"
     /\ ~HasEmptyByteArray(call.data)) => ret = Ok(call.data)

\* The tag the protocol assigns to each kind of Node.
TagOfKind(kind) ==
    CASE kind = "None" -> MPV_FORMAT_NONE
      [] kind = "String" -> MPV_FORMAT_STRING
      [] kind = "Int" -> MPV_FORMAT_INT64
      [] kind = "Double" -> MPV_FORMAT_DOUBLE
      [] kind = "Bool" -> MPV_FORMAT_FLAG
      [] kind = "ByteArray" -> MPV_FORMAT_BYTE_ARRAY
      [] kind = "Array" -> MPV_FORMAT_NODE_ARRAY
      [] kind = "Map" -> MPV_FORMAT_NODE_MAP

\* Whether the mpv_node `node` and every element under it, read the way the
\* native side reads a list record, carries the tag of the corresponding
\* part of v.
RECURSIVE TagsFaithful(_, _, _)
TagsFaithful(v, node, env) ==
    /\ node.format = TagOfKind(v.kind)
    /\ v.kind = "None" => node.u = WZero
    /\ v.kind = "Array" =>
          \A i \in 1..Len(v.val) :
             TagsFaithful(v.val[i], ReadNode(node.u.obj.values, i, env), env)
    /\ v.kind = "Map" =>
          \A i \in 1..Len(MapKeys(v.val)) :
             TagsFaithful(v.val[MapKeys(v.val)[i]],
                          ReadNode(node.u.obj.values, i, env), env)

\* C4: the node to_mpv_node returns for v carries the tag of v's kind, a
\* None has a zero payload, and so for every nested element.
C4_TagFidelity ==
    (phase = "running" /\ call.fn = "to_mpv_node") =>
        TagsFaithful(call.data, staged, call.env)
====
